---- MODULE Spec2Model ----
(***************************************************************************)
(* Conversation history lifecycle and compression pipeline of              *)
(* Chrry-Server: ConversationManager (raw / tactical / archive tiers and   *)
(* the interval countdown), CompressManager.compress and the AI            *)
(* configuration store it consults.                                        *)
(***************************************************************************)
EXTENDS Integers, Sequences, FiniteSets, TLC

VARIABLES
    conversations,  \* ConversationManager.conversations: id -> metadata (in memory)
    meta_file,      \* data/history/data.json: the metadata as last saved
    history,        \* data/history/<id>/: id -> [tactical, archive, raw_context]
    ais,            \* AIConfigManager.ais: the configured AI uuids
    now,            \* int(time.time())
    ret,            \* what the last call returned and did (observation)
    trigger_log,    \* id -> appends since the last compress call, compress calls so far,
                    \*       whether every call so far met a summarizer that answers with a summary
    io_faults,      \* storage errors that have occurred so far
    turn,           \* what the last chat turn (process_message) did (observation)
    threads,        \* request thread -> the call it is in: position and local variables
    requests        \* calls begun so far, and the appends that returned True (observation)

vars == <<conversations, meta_file, history, ais, now, ret, trigger_log, io_faults, turn,
         threads, requests>>

----------------------------------------------------------------------------
(* Bounds of the model *)

MaxMessages == 12       \* add_message calls per conversation
MaxLong == 22           \* add_message calls per conversation in long runs
MaxTime == 2            \* the clock runs 1..MaxTime
MaxArchive == 2         \* direct update_after_compression calls per conversation
MaxFaults == 1          \* storage errors per run
MaxChat == 7            \* messages per conversation in runs of chat turns
MaxTool == 1            \* tool responses come among the first MaxTool messages
MaxShort == 3           \* messages per conversation in chat runs with the clock
MaxCalls == 3           \* calls begun by the request threads
MaxAlone == 6           \* messages a conversation can have when one more is sent alone
MaxPair == 2            \* add_message calls per conversation in runs of two conversations
MaxTurns == 12          \* messages per conversation in runs of long chat turns
MaxParse == 8           \* messages per conversation in runs of failing chat turns

(* Program constants *)

DefaultInterval == 10   \* "interval": 10 at creation, and the reset value
MinTactical == 10       \* compress refuses len(tactical_content) <= 10
keep_recent == 5        \* compress keeps the 5 newest messages
ArchiveWindow == 8      \* get_context_for_ai takes the 8 newest archive entries

ConvIds == {"c1"}
AiIds == {"ai1"}
Devices == {"d1"}

----------------------------------------------------------------------------
(* dict helpers *)

Put(f, k, v) == [x \in (DOMAIN f) \cup {k} |-> IF x = k THEN v ELSE f[x]]
Del(f, k) == [x \in (DOMAIN f) \ {k} |-> f[x]]

(* Python slices s[-n:] and s[:-n] (n >= 0; -0 is 0) *)
slice_last(s, n) ==
    IF n = 0 \/ n >= Len(s) THEN s ELSE SubSeq(s, Len(s) - n + 1, Len(s))

slice_but_last(s, n) ==
    IF n = 0 \/ n >= Len(s) THEN <<>> ELSE SubSeq(s, 1, Len(s) - n)

(* str.strip() on a text given as a sequence of characters *)
RECURSIVE lstrip(_)
lstrip(s) == IF s # <<>> /\ Head(s) = " " THEN lstrip(Tail(s)) ELSE s

RECURSIVE rstrip(_)
rstrip(s) ==
    IF s # <<>> /\ s[Len(s)] = " " THEN rstrip(SubSeq(s, 1, Len(s) - 1)) ELSE s

strip(s) == rstrip(lstrip(s))

----------------------------------------------------------------------------
(* Mutant: the entry starts with the countdown already at 0 *)
new_metadata_no_countdown(ai_uuid, device_id, t) ==
    [name |-> "n", prompt |-> "common", ai |-> ai_uuid,
     interval |-> 0, device |-> device_id,
     created |-> t, updated |-> t,
     message_count |-> 0, last_compress_attempt |-> 0]

(* ConversationManager.create_conversation: the metadata entry *)
new_metadata(ai_uuid, device_id, t) ==
    [name |-> "n", prompt |-> "common", ai |-> ai_uuid,
     interval |-> DefaultInterval, device |-> device_id,
     created |-> t, updated |-> t,
     message_count |-> 0, last_compress_attempt |-> 0]

empty_files == [tactical |-> <<>>, archive |-> <<>>, raw_context |-> <<>>]

(* Mutant: the file is rewritten with the new item only *)
append_to_file_overwrite(existing_data, data, max_items) == <<data>>

(* Mutant: the new item is put in front of the file's items *)
append_to_file_front(existing_data, data, max_items) == <<data>> \o existing_data

(* Mutant: the file is always cut to its 5 newest items *)
append_to_file_capped(existing_data, data, max_items) ==
    slice_last(Append(existing_data, data), 5)

(* ConversationManager._append_to_file *)
append_to_file(existing_data, data, max_items) ==
    LET appended == Append(existing_data, data)
    IN  IF max_items > 0 /\ Len(appended) > max_items
        THEN slice_last(appended, max_items)
        ELSE appended

(* add_message: the message object *)
new_message(role, content, t) ==
    [role |-> role, content |-> content, timestamp |-> t]

----------------------------------------------------------------------------
(* Mutant: the fold keeps the oldest messages instead of the newest *)
update_after_compression_keep_first(conversation_id, compressed_summary, keep_recent_messages, convs, hist, t, fault) ==
    IF conversation_id \notin DOMAIN convs \/ conversation_id \notin DOMAIN hist
    THEN [ok |-> FALSE, history |-> hist]
    ELSE
    LET files == hist[conversation_id]
        tactical == files.tactical
        to_keep == SubSeq(tactical, 1, keep_recent_messages)
        to_compress == slice_but_last(tactical, keep_recent_messages)
        new_archive == Append(files.archive,
                              [type |-> "compressed",
                               content |-> compressed_summary,
                               original_count |-> Len(to_compress),
                               timestamp |-> t])
    IN  IF Len(tactical) <= keep_recent_messages
        THEN [ok |-> TRUE, history |-> hist]
        ELSE [ok |-> TRUE,
              history |-> [hist EXCEPT ![conversation_id].archive = new_archive,
                                       ![conversation_id].tactical = to_keep]]

(* Mutant: the entry counts every message of tactical, the kept ones     *)
(* too                                                                     *)
update_after_compression_count_all(conversation_id, compressed_summary, keep_recent_messages, convs, hist, t, fault) ==
    IF conversation_id \notin DOMAIN convs \/ conversation_id \notin DOMAIN hist
    THEN [ok |-> FALSE, history |-> hist]
    ELSE
    LET files == hist[conversation_id]
        tactical == files.tactical
        to_keep == slice_last(tactical, keep_recent_messages)
        new_archive == Append(files.archive,
                              [type |-> "compressed",
                               content |-> compressed_summary,
                               original_count |-> Len(tactical),
                               timestamp |-> t])
    IN  IF Len(tactical) <= keep_recent_messages
        THEN [ok |-> TRUE, history |-> hist]
        ELSE [ok |-> TRUE,
              history |-> [hist EXCEPT ![conversation_id].archive = new_archive,
                                       ![conversation_id].tactical = to_keep]]

(* Mutant: the length test is < instead of <= *)
update_after_compression_strict(conversation_id, compressed_summary, keep_recent_messages, convs, hist, t, fault) ==
    IF conversation_id \notin DOMAIN convs \/ conversation_id \notin DOMAIN hist
    THEN [ok |-> FALSE, history |-> hist]
    ELSE
    LET files == hist[conversation_id]
        tactical == files.tactical
        to_keep == slice_last(tactical, keep_recent_messages)
        to_compress == slice_but_last(tactical, keep_recent_messages)
        new_archive == Append(files.archive,
                              [type |-> "compressed",
                               content |-> compressed_summary,
                               original_count |-> Len(to_compress),
                               timestamp |-> t])
    IN  IF Len(tactical) < keep_recent_messages
        THEN [ok |-> TRUE, history |-> hist]
        ELSE [ok |-> TRUE,
              history |-> [hist EXCEPT ![conversation_id].archive = new_archive,
                                       ![conversation_id].tactical = to_keep]]

(* Mutant: the archive file is rewritten with the new entry only *)
update_after_compression_replace(conversation_id, compressed_summary, keep_recent_messages, convs, hist, t, fault) ==
    IF conversation_id \notin DOMAIN convs \/ conversation_id \notin DOMAIN hist
    THEN [ok |-> FALSE, history |-> hist]
    ELSE
    LET tactical == hist[conversation_id].tactical
        entry == [type |-> "compressed", content |-> compressed_summary,
                  original_count |-> Len(slice_but_last(tactical, keep_recent_messages)),
                  timestamp |-> t]
    IN  IF Len(tactical) <= keep_recent_messages
        THEN [ok |-> TRUE, history |-> hist]
        ELSE [ok |-> TRUE,
              history |-> [hist EXCEPT ![conversation_id].archive = <<entry>>,
                                       ![conversation_id].tactical =
                                           slice_last(tactical, keep_recent_messages)]]

(* ConversationManager.update_after_compression.  fault names the file     *)
(* access that raises ("none": no storage error); an exception anywhere in *)
(* the try block makes the method return False, keeping what was already   *)
(* written.                                                                *)
update_after_compression(conversation_id, compressed_summary, keep_recent_messages, convs, hist, t, fault) ==
    IF conversation_id \notin DOMAIN convs \/ conversation_id \notin DOMAIN hist
    THEN [ok |-> FALSE, history |-> hist]
    ELSE
    LET files == hist[conversation_id]
        tactical == files.tactical
        to_keep == slice_last(tactical, keep_recent_messages)
        to_compress == slice_but_last(tactical, keep_recent_messages)
        new_archive == Append(files.archive,
                              [type |-> "compressed",
                               content |-> compressed_summary,
                               original_count |-> Len(to_compress),
                               timestamp |-> t])
    IN  IF fault = "fold_read" THEN [ok |-> FALSE, history |-> hist]
        ELSE IF Len(tactical) <= keep_recent_messages
        THEN [ok |-> TRUE, history |-> hist]
        ELSE IF fault = "fold_archive" THEN [ok |-> FALSE, history |-> hist]
        ELSE IF fault = "fold_tactical"
        THEN [ok |-> FALSE,
              history |-> [hist EXCEPT ![conversation_id].archive = new_archive]]
        ELSE [ok |-> TRUE,
              history |-> [hist EXCEPT ![conversation_id].archive = new_archive,
                                       ![conversation_id].tactical = to_keep]]

----------------------------------------------------------------------------
(* The completion provider's answer to a compaction request, as the HTTP   *)
(* call returns it: no usable response, or an OpenAI-style body.           *)
NoResponse == [ok |-> FALSE, choices |-> <<>>]
DeclineReply ==
    [ok |-> TRUE, choices |-> <<[content |-> <<>>, tool_calls |-> <<"no_compress">>]>>]
BlankReply ==
    [ok |-> TRUE, choices |-> <<[content |-> <<" ">>, tool_calls |-> <<>>]>>]
SummaryReply ==
    [ok |-> TRUE, choices |-> <<[content |-> <<" ", "S">>, tool_calls |-> <<>>]>>]
MalformedReply == [ok |-> TRUE, choices |-> <<>>]

Replies == {NoResponse, DeclineReply, BlankReply, SummaryReply, MalformedReply}

(* utils.ai_response_util.extract_openai_response *)
extract_ai_response(ai_response) ==
    IF ai_response.choices = <<>>
    THEN [message |-> <<>>, tools |-> <<>>]
    ELSE [message |-> ai_response.choices[1].content,
          tools |-> ai_response.choices[1].tool_calls]

(* The attributes class AIConfigManager defines *)
AIConfigManagerAttrs == {"_load_ai", "save", "get", "set", "list", "delete"}

(* compress step 8: response = ai_manager.call_ai(ai_config, payload).     *)
(* Looking up an attribute the class does not define raises               *)
(* AttributeError.                                                         *)
call_ai(reply) ==
    IF "call_ai" \in AIConfigManagerAttrs
    THEN [raised |-> FALSE, response |-> reply]
    ELSE [raised |-> TRUE, response |-> NoResponse]

(* Mutant: the tiers are folded before the provider is called, so the    *)
(* exception handler is reached with the fold already written             *)
compress_fold_before_call(conversation_id, tactical_content, convs, hist, aiset, reply, t, fault) ==
    LET folded == update_after_compression(conversation_id, <<>>, keep_recent,
                                           convs, hist, t, fault)
    IN  IF Len(tactical_content) <= MinTactical
        THEN [success |-> FALSE, reason |-> "too_few", history |-> hist]
        ELSE IF convs[conversation_id].ai \notin aiset
        THEN [success |-> FALSE, reason |-> "no_ai_config", history |-> hist]
        ELSE [success |-> FALSE, reason |-> "exception", history |-> folded.history]

(* Mutant: the first length test uses the number of messages kept (5)    *)
(* instead of 10                                                           *)
compress_low_threshold(conversation_id, tactical_content, convs, hist, aiset, reply, t, fault) ==
    IF Len(tactical_content) <= keep_recent
    THEN [success |-> FALSE, reason |-> "too_few", history |-> hist]
    ELSE IF convs[conversation_id].ai \notin aiset
    THEN [success |-> FALSE, reason |-> "no_ai_config", history |-> hist]
    ELSE [success |-> FALSE, reason |-> "exception", history |-> hist]

(* Mutant: the provider is reached and the summary is not tested for     *)
(* being empty (lines 142-146 left out)                                    *)
compress_keep_blank(conversation_id, tactical_content, convs, hist, aiset, reply, t, fault) ==
    LET skip(reason) == [success |-> FALSE, reason |-> reason, history |-> hist]
        extracted == extract_ai_response(reply)
        folded == update_after_compression(conversation_id, strip(extracted.message),
                                           keep_recent, convs, hist, t, fault)
    IN  IF Len(tactical_content) <= MinTactical THEN skip("too_few")
        ELSE IF convs[conversation_id].ai \notin aiset THEN skip("no_ai_config")
        ELSE IF ~reply.ok THEN skip("call_failed")
        ELSE IF Len(extracted.tools) > 0 /\ extracted.tools[1] = "no_compress"
        THEN skip("declined")
        ELSE [success |-> folded.ok, reason |-> "compressed",
              history |-> folded.history]

(* CompressManager.compress: returns whether the history was compressed,   *)
(* the reason it logs, and the tier files as it leaves them.               *)
compress(conversation_id, tactical_content, convs, hist, aiset, reply, t, fault) ==
    LET skip(reason) == [success |-> FALSE, reason |-> reason, history |-> hist]
    IN
    IF Len(tactical_content) <= MinTactical THEN skip("too_few")
    ELSE IF conversation_id \notin DOMAIN convs \/ conversation_id \notin DOMAIN hist
    THEN skip("no_data")
    ELSE IF convs[conversation_id].ai = "" THEN skip("no_ai")
    ELSE IF convs[conversation_id].ai \notin aiset THEN skip("no_ai_config")
    ELSE IF Len(tactical_content) <= keep_recent THEN skip("too_few")
    ELSE IF Len(slice_but_last(tactical_content, keep_recent)) = 0
    THEN skip("nothing_to_compress")
    ELSE
    LET called == call_ai(reply)
        extracted == extract_ai_response(called.response)
        compressed_summary == strip(extracted.message)
        folded == update_after_compression(conversation_id, compressed_summary,
                                           keep_recent, convs, hist, t, fault)
    IN  IF called.raised THEN skip("exception")
        ELSE IF ~called.response.ok THEN skip("call_failed")
        ELSE IF Len(extracted.tools) > 0 /\ extracted.tools[1] = "no_compress"
        THEN skip("declined")
        ELSE IF compressed_summary = <<>> THEN skip("empty_summary")
        ELSE IF folded.ok
        THEN [success |-> TRUE, reason |-> "compressed", history |-> folded.history]
        ELSE [success |-> FALSE, reason |-> "update_failed",
              history |-> folded.history]

----------------------------------------------------------------------------
(* add_message step 3: message_count += 1, updated = now *)
count_message(metadata, t) ==
    [metadata EXCEPT !.message_count = @ + 1, !.updated = t]

(* Mutant: the guard lets a countdown of 0 be decremented *)
should_decrement_at_zero(current_interval) == current_interval >= 0

(* Mutant: the guard tests the wrong threshold *)
should_decrement_above_five(current_interval) == current_interval > 5

(* add_message step 4: "if current_interval > 0" *)
should_decrement(current_interval) == current_interval > 0

(* add_message step 4, interval > 0: interval = current_interval - 1 *)
decrement_interval(metadata) ==
    [metadata EXCEPT !.interval = @ - 1]

(* Mutant: the reset is off by one *)
reset_interval_short(metadata, compress_success, t) ==
    [metadata EXCEPT !.interval = DefaultInterval - 1, !.last_compress_attempt = t]

(* Mutant: only a successful compression resets the countdown *)
reset_interval_on_success_only(metadata, compress_success, t) ==
    IF compress_success
    THEN [metadata EXCEPT !.interval = DefaultInterval, !.last_compress_attempt = t]
    ELSE metadata

(* add_message step 4, interval = 0, after compress returned: both the    *)
(* success branch and the failure branch write the same two fields        *)
reset_interval(metadata, compress_success, t) ==
    IF compress_success
    THEN [metadata EXCEPT !.interval = DefaultInterval, !.last_compress_attempt = t]
    ELSE [metadata EXCEPT !.interval = DefaultInterval, !.last_compress_attempt = t]

(* ConversationManager._save_metadata: the error is logged, never raised *)
save_metadata(convs, file, fault) ==
    IF fault = "save" THEN file ELSE convs

(* What a call returned and did; the fields an operation does not set     *)
(* keep these defaults.                                                    *)
Returned(op, id, ok) ==
    [op |-> op, id |-> id, ok |-> ok,
     fired |-> FALSE,       \* add_message took the interval = 0 branch
     attempt |-> FALSE,     \* compress was called
     success |-> FALSE,     \* compress returned True
     reason |-> "",         \* what compress logged
     reply |-> NoResponse,  \* the provider's answer to this attempt's request
     gap |-> 0,             \* messages appended since the previous compress call
     len_before |-> 0]      \* len(tactical) when the call started

(* What a chat turn did; the fields keep these defaults until the turn    *)
(* reaches the step that sets them.                                        *)
NoTurn ==
    [id |-> "", device |-> <<>>, ok |-> FALSE, error |-> "",
     built |-> FALSE,       \* build_messages was called
     raised |-> FALSE,      \* build_messages raised
     payload |-> <<>>,      \* the messages build_messages returned
     messages |-> <<>>,     \* the new messages handed to build_messages
     context |-> <<>>,      \* what get_context_for_ai returned
     archive_len |-> 0,     \* len(archive) when the context was read
     tactical_len |-> 0,    \* len(tactical) when the context was read
     at |-> 0,              \* the clock when build_messages ran
     fresh |-> FALSE]       \* no tier has changed since build_messages ran

(* A tier changes: the last assembled payload is out of date *)
Stale(t) == [t EXCEPT !.fresh = FALSE]

(* The threads of the server (Flask serves each request in its own       *)
(* thread) and a thread between two calls                                  *)
ThreadIds == {"t1", "t2"}
Idle == [pc |-> "idle", id |-> "", message |-> <<>>, data |-> <<>>, summary |-> <<>>]

NoLog == [since |-> 0, attempts |-> 0, steady |-> TRUE]

Faults == {"none", "raw", "tactical", "read", "save",
           "fold_read", "fold_archive", "fold_tactical", "rmtree"}

(* The conversations that are in the metadata and have their directory   *)
Existing == (DOMAIN conversations) \cap (DOMAIN history)

Init ==
    /\ conversations = [c \in {} |-> c]
    /\ meta_file = [c \in {} |-> c]
    /\ history = [c \in {} |-> c]
    /\ ais = {}
    /\ now = 1
    /\ ret = Returned("init", "", TRUE)
    /\ trigger_log = [c \in {} |-> c]
    /\ io_faults = 0
    /\ turn = NoTurn
    /\ threads = [t \in ThreadIds |-> Idle]
    /\ requests = [begun |-> 0, acked |-> {}]

(* The storage (environment): at most MaxFaults file operations fail *)
Storage(fault) ==
    /\ fault # "none" => io_faults < MaxFaults
    /\ io_faults' = IF fault = "none" THEN io_faults ELSE io_faults + 1

(* POST /v1/ai/set, /v1/ai/delete: AIConfigManager.set and .delete *)
AiSet(uuid) ==
    /\ ais' = ais \cup {uuid}
    /\ UNCHANGED <<conversations, meta_file, history, now, ret, trigger_log, io_faults, turn, threads, requests>>

AiDelete(uuid) ==
    /\ ais' = ais \ {uuid}
    /\ UNCHANGED <<conversations, meta_file, history, now, ret, trigger_log, io_faults, turn, threads, requests>>

(* POST /v1/create (the AI configuration must exist) and                  *)
(* ConversationManager.create_conversation; uuid4 gives an unused id      *)
CreateConversation(conversation_id, ai_uuid, device_id) ==
    /\ ai_uuid \in ais
    /\ conversation_id \notin DOMAIN conversations
    /\ conversation_id \notin DOMAIN history
    /\ history' = Put(history, conversation_id, empty_files)
    /\ conversations' = Put(conversations, conversation_id,
                            new_metadata(ai_uuid, device_id, now))
    /\ meta_file' = save_metadata(conversations', meta_file, "none")
    /\ trigger_log' = Put(trigger_log, conversation_id, NoLog)
    /\ ret' = Returned("create_conversation", conversation_id, TRUE)
    /\ turn' = Stale(turn)
    /\ UNCHANGED <<threads, requests>>
    /\ UNCHANGED <<ais, now, io_faults>>

(* add_message without the checks of lines 115-122: an id that is not    *)
(* there gets a metadata entry                                             *)
add_message_upsert(conversation_id, message, reply, fault, convs, file, hist, logs, aiset, t) ==
    LET created == Put(convs, conversation_id, new_metadata("", "", t))
    IN  [conversations |-> IF conversation_id \in DOMAIN convs THEN convs ELSE created,
         meta_file |-> file, history |-> hist, trigger_log |-> logs,
         ret |-> Returned("add_message", conversation_id, FALSE)]

(* Mutant: add_message returns what compress returned when the countdown *)
(* was at 0 (on storage that does not fail)                                *)
add_message_strict(conversation_id, message, reply, fault, convs, file, hist, logs, aiset, t) ==
    IF conversation_id \notin DOMAIN convs \/ conversation_id \notin DOMAIN hist
    THEN [conversations |-> convs, meta_file |-> file, history |-> hist,
          trigger_log |-> logs,
          ret |-> Returned("add_message", conversation_id, FALSE)]
    ELSE
    LET files == hist[conversation_id]
        hist2 == [hist EXCEPT ![conversation_id].raw_context =
                                  append_to_file(files.raw_context, message, 0),
                              ![conversation_id].tactical =
                                  append_to_file(files.tactical, message, 0)]
        counted == [convs EXCEPT ![conversation_id] = count_message(@, t)]
        result == compress(conversation_id, hist2[conversation_id].tactical,
                           counted, hist2, aiset, reply, t, fault)
        log == logs[conversation_id]
        done == [Returned("add_message", conversation_id, TRUE)
                     EXCEPT !.len_before = Len(files.tactical)]
        decremented == [counted EXCEPT ![conversation_id] = decrement_interval(@)]
        reset == [counted EXCEPT ![conversation_id] =
                      reset_interval(@, result.success, t)]
    IN  IF should_decrement(counted[conversation_id].interval)
        THEN [conversations |-> decremented, meta_file |-> decremented,
              history |-> hist2,
              trigger_log |-> [logs EXCEPT ![conversation_id].since = @ + 1],
              ret |-> done]
        ELSE [conversations |-> reset, meta_file |-> reset,
              history |-> result.history,
              trigger_log |-> [logs EXCEPT ![conversation_id] =
                                   [since |-> 0, attempts |-> log.attempts + 1,
                                    steady |-> FALSE]],
              ret |-> [done EXCEPT !.ok = result.success,
                                   !.fired = TRUE, !.attempt = TRUE,
                                   !.success = result.success,
                                   !.reason = result.reason,
                                   !.reply = reply,
                                   !.gap = log.since]]

(* ConversationManager.add_message on the store (convs, file, hist) with  *)
(* the observation log: what it returns and how it leaves the store.      *)
add_message(conversation_id, message, reply, fault, convs, file, hist, logs, aiset, t) ==
    LET same(r) == [conversations |-> convs, meta_file |-> file, history |-> hist,
                    trigger_log |-> logs, ret |-> r]
    IN
    IF conversation_id \notin DOMAIN convs \/ conversation_id \notin DOMAIN hist
    THEN same(Returned("add_message", conversation_id, FALSE))
    ELSE
    LET files == hist[conversation_id]
        hist1 == [hist EXCEPT ![conversation_id].raw_context =
                      append_to_file(files.raw_context, message, 0)]
        hist2 == [hist1 EXCEPT ![conversation_id].tactical =
                      append_to_file(files.tactical, message, 0)]
        counted == [convs EXCEPT ![conversation_id] = count_message(@, t)]
        current_interval == counted[conversation_id].interval
        tactical_content == hist2[conversation_id].tactical
        result == compress(conversation_id, tactical_content, counted, hist2,
                           aiset, reply, t, fault)
        log == logs[conversation_id]
        one_more == [logs EXCEPT ![conversation_id].since = @ + 1]
        failed == [Returned("add_message", conversation_id, FALSE)
                       EXCEPT !.len_before = Len(files.tactical)]
        done == [Returned("add_message", conversation_id, TRUE)
                       EXCEPT !.len_before = Len(files.tactical)]
        decremented == [counted EXCEPT ![conversation_id] = decrement_interval(@)]
        reset == [counted EXCEPT ![conversation_id] =
                      reset_interval(@, result.success, t)]
    IN
    IF fault = "raw" THEN same(failed)
    ELSE IF fault = "tactical"
    THEN [conversations |-> convs, meta_file |-> file, history |-> hist1,
          trigger_log |-> one_more, ret |-> failed]
    ELSE IF should_decrement(current_interval)
    THEN [conversations |-> decremented,
          meta_file |-> save_metadata(decremented, file, fault),
          history |-> hist2, trigger_log |-> one_more, ret |-> done]
    ELSE IF fault = "read"
    THEN [conversations |-> counted, meta_file |-> file, history |-> hist2,
          trigger_log |-> one_more, ret |-> [failed EXCEPT !.fired = TRUE]]
    ELSE [conversations |-> reset,
          meta_file |-> save_metadata(reset, file, fault),
          history |-> result.history,
          trigger_log |-> [logs EXCEPT ![conversation_id] =
                               [since |-> 0, attempts |-> log.attempts + 1,
                                steady |-> /\ log.steady
                                           /\ reply = SummaryReply
                                           /\ result.reason # "no_ai_config"]],
          ret |-> [done EXCEPT !.fired = TRUE, !.attempt = TRUE,
                               !.success = result.success,
                               !.reason = result.reason,
                               !.reply = reply,
                               !.gap = log.since]]

(* A call of add_message(conversation_id, role, content) *)
AddMessage(conversation_id, role, content, reply, fault) ==
    LET after == add_message(conversation_id, new_message(role, content, now),
                             reply, fault, conversations, meta_file, history,
                             trigger_log, ais, now)
    IN  /\ Storage(fault)
        /\ conversations' = after.conversations
        /\ meta_file' = after.meta_file
        /\ history' = after.history
        /\ trigger_log' = after.trigger_log
        /\ ret' = after.ret
        /\ turn' = Stale(turn)
        /\ UNCHANGED <<threads, requests>>
        /\ UNCHANGED <<ais, now>>

(* ConversationManager.update_after_compression called on the store *)
UpdateAfterCompression(conversation_id, compressed_summary, keep_recent_messages, fault) ==
    LET folded == update_after_compression(conversation_id, compressed_summary,
                                           keep_recent_messages, conversations,
                                           history, now, fault)
        before == IF conversation_id \in DOMAIN history
                  THEN Len(history[conversation_id].tactical) ELSE 0
    IN  /\ conversation_id \in DOMAIN history =>
               Len(history[conversation_id].archive) < MaxArchive
        /\ Storage(fault)
        /\ history' = folded.history
        /\ ret' = [Returned("update_after_compression", conversation_id, folded.ok)
                       EXCEPT !.len_before = before]
        /\ turn' = Stale(turn)
        /\ UNCHANGED <<threads, requests>>
        /\ UNCHANGED <<conversations, meta_file, ais, now, trigger_log>>

(* delete_conversation without the rmtree of lines 398-405: the           *)
(* directory and its three files stay                                      *)
DeleteConversation_keep_files(conversation_id, fault) ==
    /\ Storage(fault)
    /\ turn' = Stale(turn)
    /\ UNCHANGED <<threads, requests>>
    /\ IF conversation_id \notin DOMAIN conversations
       THEN /\ ret' = Returned("delete_conversation", conversation_id, FALSE)
            /\ UNCHANGED <<conversations, meta_file, history, ais, now, trigger_log>>
       ELSE /\ conversations' = Del(conversations, conversation_id)
            /\ meta_file' = save_metadata(conversations', meta_file, fault)
            /\ trigger_log' = Del(trigger_log, conversation_id)
            /\ ret' = Returned("delete_conversation", conversation_id, fault # "save")
            /\ UNCHANGED <<history, ais, now>>

(* ConversationManager.delete_conversation *)
DeleteConversation(conversation_id, fault) ==
    /\ Storage(fault)
    /\ turn' = Stale(turn)
    /\ UNCHANGED <<threads, requests>>
    /\ IF conversation_id \notin DOMAIN conversations
       THEN /\ ret' = Returned("delete_conversation", conversation_id, FALSE)
            /\ UNCHANGED <<conversations, meta_file, history, ais, now, trigger_log>>
       ELSE IF conversation_id \in DOMAIN history /\ fault = "rmtree"
       THEN /\ ret' = Returned("delete_conversation", conversation_id, FALSE)
            /\ UNCHANGED <<conversations, meta_file, history, ais, now, trigger_log>>
       ELSE /\ history' = Del(history, conversation_id)
            /\ conversations' = Del(conversations, conversation_id)
            /\ meta_file' = save_metadata(conversations', meta_file, fault)
            /\ trigger_log' = Del(trigger_log, conversation_id)
            /\ ret' = Returned("delete_conversation", conversation_id, fault # "save")
            /\ UNCHANGED <<ais, now>>

(* Mutant: the context is what it was before the newest message was      *)
(* appended                                                                *)
get_context_for_ai_stale(conversation_id, convs, hist) ==
    IF conversation_id \notin DOMAIN convs \/ conversation_id \notin DOMAIN hist
    THEN <<>>
    ELSE hist[conversation_id].archive
             \o slice_but_last(hist[conversation_id].tactical, 1)

(* ConversationManager.get_context_for_ai: the newest 8 archive entries,  *)
(* then the whole tactical tier; [] for an unknown conversation            *)
get_context_for_ai(conversation_id, convs, hist) ==
    IF conversation_id \notin DOMAIN convs \/ conversation_id \notin DOMAIN hist
    THEN <<>>
    ELSE LET archive == hist[conversation_id].archive
             tactical == hist[conversation_id].tactical
             memory == IF Len(archive) >= ArchiveWindow
                       THEN slice_last(archive, ArchiveWindow)
                       ELSE archive
         IN  memory \o tactical

(* PromptManager.get_full_prompt with the prompts the manager starts with *)
(* (only "common"): the common text, then the text of the type             *)
get_full_prompt(prompt_type) ==
    IF prompt_type = "common"
    THEN <<"You are a helpful AI assistant.", "You are a helpful AI assistant.">>
    ELSE <<"You are a helpful AI assistant.">>

(* "压缩任务" in device, the device a sequence of text pieces *)
is_compress_task(device) ==
    \E i \in 1 .. Len(device) : device[i] = "compress-task"

(* build_messages, the loop body: one context entry as sent.  dict.get on *)
(* a key the entry lacks gives None; the placeholder id is made from the  *)
(* clock.                                                                  *)
message_item(msg, t) ==
    LET base == [role |-> msg.role, content |-> msg.content]
        calls == IF msg.role = "assistant" /\ "tool_calls" \in DOMAIN msg
                    /\ msg.tool_calls # <<>>
                 THEN [tool_calls |-> msg.tool_calls]
                 ELSE <<>>
        call_id == IF msg.role = "tool"
                   THEN IF "tool_call_id" \in DOMAIN msg /\ msg.tool_call_id # <<>>
                        THEN [tool_call_id |-> msg.tool_call_id]
                        ELSE [tool_call_id |-> <<"call_missing_", t>>]
                   ELSE <<>>
    IN  base @@ calls @@ call_id

(* utils.payload_util.build_messages: msg["role"] on an entry without    *)
(* that key raises KeyError.                                               *)
build_messages(system_prompt, context, messages, role, device, t) ==
    LET system == IF system_prompt = <<>> THEN <<>>
                  ELSE IF is_compress_task(device)
                  THEN <<[role |-> "system",
                          content |-> system_prompt \o <<"compression_prompt">>]>>
                  ELSE <<[role |-> "system", content |-> system_prompt]>>
        marker == IF is_compress_task(device)
                  THEN <<[role |-> "system", content |-> <<"[compress-task]">> \o device]>>
                  ELSE <<[role |-> "system", content |-> <<"[device]">> \o device]>>
        keyed == \A i \in 1 .. Len(context) :
                     {"role", "content"} \subseteq DOMAIN context[i]
        items == [i \in 1 .. Len(context) |-> message_item(context[i], t)]
        new == [i \in 1 .. Len(messages) |-> [role |-> role, content |-> messages[i]]]
    IN  IF keyed
        THEN [raised |-> FALSE, final |-> system \o marker \o items \o new]
        ELSE [raised |-> TRUE, final |-> <<>>]

(* The number of entries build_messages puts before the context *)
prefix_len(system_prompt) == IF system_prompt = <<>> THEN 1 ELSE 2

(* utils.ai_response_util.extract_ai_response: only the replies of these *)
(* providers are extracted; for any other provider the result is {}       *)
OpenAIProviders == {"openai", "deepseek", "ollama", "siliconflow"}

(* ai_config.get("provider", "openai") of the configuration a reply came *)
(* from: a reply carries it in the field provider when it is not the     *)
(* default                                                                 *)
provider_of(ai_response) ==
    IF "provider" \in DOMAIN ai_response THEN ai_response.provider ELSE "openai"

(* The relay's answers to a live chat request *)
ChatReply ==
    [ok |-> TRUE, choices |-> <<[content |-> <<"a">>, tool_calls |-> <<>>]>>]

ChatAnswers == {NoResponse, ChatReply}

(* Mutant: a turn that fails after its messages were appended takes    *)
(* the appends back                                                       *)
ProcessMessage_rollback(conversation, device, message, tool_response, reply, answer) ==
    LET start == [conversations |-> conversations, meta_file |-> meta_file,
                  history |-> history, trigger_log |-> trigger_log, ret |-> ret]
        known == conversation \in DOMAIN conversations
                 /\ conversation \in DOMAIN history
        metadata == conversations[conversation]
        has_text == message # <<>> /\ strip(message) # <<>>
        new_messages == IF has_text THEN <<message>> ELSE <<>>
        extracted == extract_ai_response(answer)
        seen == [NoTurn EXCEPT !.id = conversation, !.device = device]
        assembled(built, ai_context, st) ==
            [seen EXCEPT !.built = TRUE, !.raised = built.raised,
                         !.payload = built.final,
                         !.messages = new_messages,
                         !.context = ai_context,
                         !.archive_len = Len(st.history[conversation].archive),
                         !.tactical_len = Len(st.history[conversation].tactical),
                         !.at = now]
        Leave(st, t) ==
            /\ conversations' = st.conversations
            /\ meta_file' = st.meta_file
            /\ history' = st.history
            /\ trigger_log' = st.trigger_log
            /\ ret' = st.ret
            /\ turn' = t
    IN
    /\ UNCHANGED <<ais, now, io_faults, threads, requests>>
    /\ IF ~known
       THEN Leave(start, [seen EXCEPT !.error = "no_conversation"])
       ELSE
       (* 3. the tool response, saved as a role "tool" message *)
       \E st1 \in {IF tool_response # <<>>
                   THEN add_message(conversation,
                            new_message("tool", tool_response[1].content, now),
                            reply, "none", conversations, meta_file,
                            history, trigger_log, ais, now)
                   ELSE start} :
       (* 4. the user message, when it has text *)
       \E st2 \in {IF has_text
                   THEN add_message(conversation, new_message("user", message, now),
                            reply, "none", st1.conversations, st1.meta_file,
                            st1.history, st1.trigger_log, ais, now)
                   ELSE st1} :
       IF has_text /\ ~st2.ret.ok
       THEN Leave(st2, [seen EXCEPT !.error = "save_user_failed"])
       ELSE IF metadata.ai \notin ais
       THEN Leave(start, [seen EXCEPT !.error = "no_ai_config"])
       ELSE
       (* 6., 7. the context and the payload *)
       \E ai_context \in {get_context_for_ai(conversation, st2.conversations,
                                             st2.history)} :
       \E built \in {build_messages(get_full_prompt(metadata.prompt), ai_context,
                                    new_messages, "user", device, now)} :
       IF built.raised
       THEN Leave(start, [assembled(built, ai_context, st2)
                            EXCEPT !.error = "exception", !.fresh = TRUE])
       ELSE IF ~answer.ok
       THEN Leave(start, [assembled(built, ai_context, st2)
                            EXCEPT !.error = "no_response", !.fresh = TRUE])
       (* 9. extract_ai_response gave {} *)
       ELSE IF provider_of(answer) \notin OpenAIProviders
       THEN Leave(start, [assembled(built, ai_context, st2)
                            EXCEPT !.error = "parse_failed", !.fresh = TRUE])
       ELSE
       (* 9., 10. the reply, saved as a role "assistant" message *)
       \E st3 \in {add_message(conversation,
                       new_message("assistant", extracted.message, now)
                           @@ [tool_calls |-> extracted.tools],
                       reply, "none", st2.conversations, st2.meta_file,
                       st2.history, st2.trigger_log, ais, now)} :
       Leave(st3, [assembled(built, ai_context, st2) EXCEPT !.ok = TRUE])

(* MessageManager.process_message: one chat turn.  message and            *)
(* tool_response are <<>> when the request has none; reply is what the    *)
(* provider would answer to a compaction request made during the turn,    *)
(* answer what it answers to the chat request.                            *)
ProcessMessage(conversation, device, message, tool_response, reply, answer) ==
    LET start == [conversations |-> conversations, meta_file |-> meta_file,
                  history |-> history, trigger_log |-> trigger_log, ret |-> ret]
        known == conversation \in DOMAIN conversations
                 /\ conversation \in DOMAIN history
        metadata == conversations[conversation]
        has_text == message # <<>> /\ strip(message) # <<>>
        new_messages == IF has_text THEN <<message>> ELSE <<>>
        extracted == extract_ai_response(answer)
        seen == [NoTurn EXCEPT !.id = conversation, !.device = device]
        assembled(built, ai_context, st) ==
            [seen EXCEPT !.built = TRUE, !.raised = built.raised,
                         !.payload = built.final,
                         !.messages = new_messages,
                         !.context = ai_context,
                         !.archive_len = Len(st.history[conversation].archive),
                         !.tactical_len = Len(st.history[conversation].tactical),
                         !.at = now]
        Leave(st, t) ==
            /\ conversations' = st.conversations
            /\ meta_file' = st.meta_file
            /\ history' = st.history
            /\ trigger_log' = st.trigger_log
            /\ ret' = st.ret
            /\ turn' = t
    IN
    /\ UNCHANGED <<ais, now, io_faults, threads, requests>>
    /\ IF ~known
       THEN Leave(start, [seen EXCEPT !.error = "no_conversation"])
       ELSE
       (* 3. the tool response, saved as a role "tool" message *)
       \E st1 \in {IF tool_response # <<>>
                   THEN add_message(conversation,
                            new_message("tool", tool_response[1].content, now),
                            reply, "none", conversations, meta_file,
                            history, trigger_log, ais, now)
                   ELSE start} :
       (* 4. the user message, when it has text *)
       \E st2 \in {IF has_text
                   THEN add_message(conversation, new_message("user", message, now),
                            reply, "none", st1.conversations, st1.meta_file,
                            st1.history, st1.trigger_log, ais, now)
                   ELSE st1} :
       IF has_text /\ ~st2.ret.ok
       THEN Leave(st2, [seen EXCEPT !.error = "save_user_failed"])
       ELSE IF metadata.ai \notin ais
       THEN Leave(st2, [seen EXCEPT !.error = "no_ai_config"])
       ELSE
       (* 6., 7. the context and the payload *)
       \E ai_context \in {get_context_for_ai(conversation, st2.conversations,
                                             st2.history)} :
       \E built \in {build_messages(get_full_prompt(metadata.prompt), ai_context,
                                    new_messages, "user", device, now)} :
       IF built.raised
       THEN Leave(st2, [assembled(built, ai_context, st2)
                            EXCEPT !.error = "exception", !.fresh = TRUE])
       ELSE IF ~answer.ok
       THEN Leave(st2, [assembled(built, ai_context, st2)
                            EXCEPT !.error = "no_response", !.fresh = TRUE])
       (* 9. extract_ai_response gave {} *)
       ELSE IF provider_of(answer) \notin OpenAIProviders
       THEN Leave(st2, [assembled(built, ai_context, st2)
                            EXCEPT !.error = "parse_failed", !.fresh = TRUE])
       ELSE
       (* 9., 10. the reply, saved as a role "assistant" message *)
       \E st3 \in {add_message(conversation,
                       new_message("assistant", extracted.message, now)
                           @@ [tool_calls |-> extracted.tools],
                       reply, "none", st2.conversations, st2.meta_file,
                       st2.history, st2.trigger_log, ais, now)} :
       Leave(st3, [assembled(built, ai_context, st2) EXCEPT !.ok = TRUE])

----------------------------------------------------------------------------
(* Two requests served at once: the calls below are the statements of     *)
(* add_message and update_after_compression between which another thread  *)
(* can run (every file access releases the interpreter lock); no          *)
(* statement of either method takes a lock.                                *)

(* A thread enters add_message(conversation_id, "user", content): lines   *)
(* 115-137                                                                 *)
CallAddMessage(t, conversation_id) ==
    /\ threads[t].pc = "idle"
    /\ requests.begun < MaxCalls
    /\ requests' = [requests EXCEPT !.begun = @ + 1]
    /\ IF conversation_id \in Existing
       THEN /\ threads' = [threads EXCEPT ![t] =
                   [Idle EXCEPT !.pc = "raw_read", !.id = conversation_id,
                                !.message = new_message("user",
                                                <<"q", requests.begun + 1>>, now)]]
            /\ UNCHANGED ret
       ELSE /\ ret' = Returned("add_message", conversation_id, FALSE)
            /\ UNCHANGED threads
    /\ UNCHANGED <<conversations, meta_file, history, ais, now, trigger_log,
                   io_faults, turn>>

(* _append_to_file, lines 201-204: the file is read into existing_data *)
AppendRead(t) ==
    LET self == threads[t]
        file == IF self.pc = "raw_read" THEN "raw_context" ELSE "tactical"
    IN  /\ self.pc \in {"raw_read", "tactical_read"}
        /\ self.id \in DOMAIN history
        /\ threads' = [threads EXCEPT ![t].data = history[self.id][file],
                                      ![t].pc = IF self.pc = "raw_read"
                                                THEN "raw_write" ELSE "tactical_write"]
        /\ UNCHANGED <<conversations, meta_file, history, ais, now, ret,
                       trigger_log, io_faults, turn, requests>>

(* _append_to_file, lines 206-213: existing_data with the message is      *)
(* written over the file                                                   *)
AppendWrite(t) ==
    LET self == threads[t]
        file == IF self.pc = "raw_write" THEN "raw_context" ELSE "tactical"
    IN  /\ self.pc \in {"raw_write", "tactical_write"}
        /\ self.id \in DOMAIN history
        /\ history' = [history EXCEPT ![self.id][file] =
                           append_to_file(self.data, self.message, 0)]
        /\ threads' = [threads EXCEPT ![t].data = <<>>,
                                      ![t].pc = IF self.pc = "raw_write"
                                                THEN "tactical_read" ELSE "metadata"]
        /\ UNCHANGED <<conversations, meta_file, ais, now, ret, trigger_log,
                       io_faults, turn, requests>>

(* add_message, lines 146-193: the count, the countdown (with the         *)
(* compress call when it is 0), the save; the call returns True           *)
AppendMetadata(t) ==
    LET self == threads[t]
        c == self.id
        counted == [conversations EXCEPT ![c] = count_message(@, now)]
        result == compress(c, history[c].tactical, counted, history, ais,
                           SummaryReply, now, "none")
        log == trigger_log[c]
        done == Returned("add_message", c, TRUE)
    IN  /\ self.pc = "metadata"
        /\ c \in Existing
        /\ threads' = [threads EXCEPT ![t] = Idle]
        /\ requests' = [requests EXCEPT !.acked =
                            @ \cup {[id |-> c, content |-> self.message.content]}]
        /\ IF should_decrement(counted[c].interval)
           THEN /\ conversations' = [counted EXCEPT ![c] = decrement_interval(@)]
                /\ trigger_log' = [trigger_log EXCEPT ![c].since = @ + 1]
                /\ ret' = done
                /\ UNCHANGED history
           ELSE /\ conversations' =
                       [counted EXCEPT ![c] = reset_interval(@, result.success, now)]
                /\ history' = result.history
                /\ trigger_log' = [trigger_log EXCEPT ![c] =
                                       [since |-> 0, attempts |-> log.attempts + 1,
                                        steady |-> /\ log.steady
                                                   /\ result.reason # "no_ai_config"]]
                /\ ret' = [done EXCEPT !.fired = TRUE, !.attempt = TRUE,
                                       !.success = result.success,
                                       !.reason = result.reason,
                                       !.reply = SummaryReply,
                                       !.gap = log.since]
        /\ meta_file' = save_metadata(conversations', meta_file, "none")
        /\ turn' = Stale(turn)
        /\ UNCHANGED <<ais, now, io_faults>>

(* A thread enters update_after_compression(conversation_id, summary, 5): *)
(* lines 326-331                                                           *)
CallUpdateAfterCompression(t, conversation_id, compressed_summary) ==
    /\ threads[t].pc = "idle"
    /\ requests.begun < MaxCalls
    /\ conversation_id \in Existing
    /\ Len(history[conversation_id].archive) < MaxArchive
    /\ requests' = [requests EXCEPT !.begun = @ + 1]
    /\ threads' = [threads EXCEPT ![t] =
           [Idle EXCEPT !.pc = "fold_read", !.id = conversation_id,
                        !.summary = compressed_summary]]
    /\ UNCHANGED <<conversations, meta_file, history, ais, now, ret, trigger_log,
                   io_faults, turn>>

(* update_after_compression, lines 334-348: tactical is read; with        *)
(* keep_recent or fewer messages the call returns True                     *)
FoldRead(t) ==
    LET self == threads[t]
        tactical == history[self.id].tactical
    IN  /\ self.pc = "fold_read"
        /\ self.id \in DOMAIN history
        /\ IF Len(tactical) <= keep_recent
           THEN /\ threads' = [threads EXCEPT ![t] = Idle]
                /\ ret' = [Returned("update_after_compression", self.id, TRUE)
                               EXCEPT !.len_before = Len(tactical)]
           ELSE /\ threads' = [threads EXCEPT ![t].data = tactical,
                                              ![t].pc = "fold_archive"]
                /\ UNCHANGED ret
        /\ UNCHANGED <<conversations, meta_file, history, ais, now, trigger_log,
                       io_faults, turn, requests>>

(* update_after_compression, lines 350-366: archive is read and written   *)
(* back with the new entry                                                 *)
FoldArchive(t) ==
    LET self == threads[t]
        to_compress == slice_but_last(self.data, keep_recent)
    IN  /\ self.pc = "fold_archive"
        /\ self.id \in DOMAIN history
        /\ history' = [history EXCEPT ![self.id].archive =
                           Append(@, [type |-> "compressed",
                                      content |-> self.summary,
                                      original_count |-> Len(to_compress),
                                      timestamp |-> now])]
        /\ threads' = [threads EXCEPT ![t].pc = "fold_tactical"]
        /\ UNCHANGED <<conversations, meta_file, ais, now, ret, trigger_log,
                       io_faults, turn, requests>>

(* update_after_compression, lines 368-376: the messages kept at the read *)
(* are written over tactical; the call returns True                        *)
FoldTactical(t) ==
    LET self == threads[t]
    IN  /\ self.pc = "fold_tactical"
        /\ self.id \in DOMAIN history
        /\ history' = [history EXCEPT ![self.id].tactical =
                           slice_last(self.data, keep_recent)]
        /\ threads' = [threads EXCEPT ![t] = Idle]
        /\ ret' = [Returned("update_after_compression", self.id, TRUE)
                       EXCEPT !.len_before = Len(self.data)]
        /\ turn' = Stale(turn)
        /\ UNCHANGED <<conversations, meta_file, ais, now, trigger_log,
                       io_faults, requests>>

(* int(time.time()) moves on *)
Tick ==
    /\ now < MaxTime
    /\ now' = now + 1
    /\ UNCHANGED <<conversations, meta_file, history, ais, ret, trigger_log, io_faults, turn, threads, requests>>

(* What clients send *)
Inputs == {[role |-> "user", content |-> <<"q">>]}
Summaries == {<<"S">>}

(* len(raw_context) of a conversation, 0 when it has no files *)
Sent(c) == IF c \in DOMAIN history THEN Len(history[c].raw_context) ELSE 0

(* A client sends message m; at most cap messages per conversation *)
SendMessage(c, m, reply, fault, cap) ==
    /\ Sent(c) < cap
    /\ AddMessage(c, m.role, m.content, reply, fault)

Next ==
    \/ \E a \in AiIds : AiSet(a)
    \/ \E a \in AiIds : AiDelete(a)
    \/ \E c \in ConvIds, a \in AiIds, d \in Devices : CreateConversation(c, a, d)
    \/ \E c \in ConvIds, m \in Inputs, r \in Replies :
           SendMessage(c, m, r, "none", MaxMessages)
    \/ \E c \in ConvIds, s \in Summaries :
           UpdateAfterCompression(c, s, keep_recent, "none")
    \/ \E c \in ConvIds : DeleteConversation(c, "none")
    \/ Tick

Spec == Init /\ [][Next]_vars

(* The same program on storage whose file operations may fail, all        *)
(* within one second of the clock                                          *)
NextIO ==
    \/ \E a \in AiIds : AiSet(a)
    \/ \E a \in AiIds : AiDelete(a)
    \/ \E c \in ConvIds, a \in AiIds, d \in Devices : CreateConversation(c, a, d)
    \/ \E c \in ConvIds, m \in Inputs, r \in Replies, f \in Faults :
           SendMessage(c, m, r, f, MaxMessages)
    \/ \E c \in ConvIds, s \in Summaries, f \in Faults :
           UpdateAfterCompression(c, s, keep_recent, f)
    \/ \E c \in ConvIds, f \in Faults : DeleteConversation(c, f)

SpecIO == Init /\ [][NextIO]_vars

(* Long runs of one conversation, all within one second of the clock *)
NextLong ==
    \/ \E a \in AiIds : AiSet(a)
    \/ \E a \in AiIds : AiDelete(a)
    \/ \E c \in ConvIds, a \in AiIds, d \in Devices : CreateConversation(c, a, d)
    \/ \E c \in ConvIds, m \in Inputs, r \in Replies :
           SendMessage(c, m, r, "none", MaxLong)
    \/ \E c \in ConvIds, s \in Summaries :
           UpdateAfterCompression(c, s, keep_recent, "none")
    \/ \E c \in ConvIds : DeleteConversation(c, "none")

SpecLong == Init /\ [][NextLong]_vars

(* What clients send in a chat turn: the device, the message text (none,  *)
(* blank, or a question) and the tool response (none, or one)             *)
ChatDevices == {<<"d1">>}
ChatTexts == {<<>>, <<" ">>, <<"q">>}
ToolResponses == {<<>>, <<[tool_call_id |-> <<"call_1">>, content |-> <<"r">>]>>}

(* A client's chat turn; at most cap messages per conversation, tool     *)
(* responses only among its first MaxTool messages                       *)
SendChat(c, d, m, tr, answer, cap) ==
    /\ Sent(c) + Len(tr) + Len(strip(m)) + 1 <= cap
    /\ tr # <<>> => Sent(c) < MaxTool
    /\ ProcessMessage(c, d, m, tr, SummaryReply, answer)

(* Chat turns, with the store operations the server offers besides them, *)
(* all within one second of the clock                                    *)
NextChat ==
    \/ \E a \in AiIds : AiSet(a)
    \/ \E a \in AiIds : AiDelete(a)
    \/ \E c \in ConvIds, a \in AiIds, d \in Devices : CreateConversation(c, a, d)
    \/ \E c \in ConvIds, d \in ChatDevices, m \in ChatTexts,
          tr \in ToolResponses, an \in ChatAnswers :
           SendChat(c, d, m, tr, an, MaxChat)
    \/ \E c \in ConvIds, s \in Summaries :
           UpdateAfterCompression(c, s, keep_recent, "none")
    \/ \E c \in ConvIds : DeleteConversation(c, "none")

SpecChat == Init /\ [][NextChat]_vars

(* Chat turns of a short conversation while the clock runs *)
NextClock ==
    \/ \E a \in AiIds : AiSet(a)
    \/ \E a \in AiIds : AiDelete(a)
    \/ \E c \in ConvIds, a \in AiIds, d \in Devices : CreateConversation(c, a, d)
    \/ \E c \in ConvIds, d \in ChatDevices, m \in ChatTexts,
          tr \in ToolResponses, an \in ChatAnswers :
           SendChat(c, d, m, tr, an, MaxShort)
    \/ \E c \in ConvIds, s \in Summaries :
           UpdateAfterCompression(c, s, keep_recent, "none")
    \/ \E c \in ConvIds : DeleteConversation(c, "none")
    \/ Tick

SpecClock == Init /\ [][NextClock]_vars

(* Two conversations, their requests served one after the other, on      *)
(* storage where a save of the metadata file may fail                     *)
ConvIds2 == {"c1", "c2"}

NextTwo ==
    \/ \E a \in AiIds : AiSet(a)
    \/ \E c \in ConvIds2, a \in AiIds, d \in Devices : CreateConversation(c, a, d)
    \/ \E c \in ConvIds2, m \in Inputs, f \in {"none", "save"} :
           SendMessage(c, m, SummaryReply, f, MaxPair)
    \/ \E c \in ConvIds2, s \in Summaries :
           UpdateAfterCompression(c, s, keep_recent, "none")
    \/ \E c \in ConvIds2, f \in {"none", "save"} : DeleteConversation(c, f)

SpecTwo == Init /\ [][NextTwo]_vars

(* A message sent while no other request is being served: add_message    *)
(* runs from its first statement to its last                               *)
SendAlone(c, m) ==
    /\ \A t \in ThreadIds : threads[t].pc = "idle"
    /\ SendMessage(c, m, SummaryReply, "none", MaxAlone)

(* Requests on one conversation served by two threads, alone or at once *)
NextThreads ==
    \/ \E a \in AiIds : AiSet(a)
    \/ \E c \in ConvIds, a \in AiIds, d \in Devices : CreateConversation(c, a, d)
    \/ \E c \in ConvIds, m \in Inputs : SendAlone(c, m)
    \/ \E t \in ThreadIds, c \in ConvIds : CallAddMessage(t, c)
    \/ \E t \in ThreadIds : AppendRead(t)
    \/ \E t \in ThreadIds : AppendWrite(t)
    \/ \E t \in ThreadIds : AppendMetadata(t)
    \/ \E t \in ThreadIds, c \in ConvIds, s \in Summaries :
           CallUpdateAfterCompression(t, c, s)
    \/ \E t \in ThreadIds : FoldRead(t)
    \/ \E t \in ThreadIds : FoldArchive(t)
    \/ \E t \in ThreadIds : FoldTactical(t)

SpecThreads == Init /\ [][NextThreads]_vars

----------------------------------------------------------------------------
(* Properties *)

LastAdd(c) == ret.op = "add_message" /\ ret.id = c

(* C1: for every conversation, between operations, the length of the Raw  *)
(* tier equals the metadata's message_count.                               *)
C1_RawLenIsMessageCount ==
    \A c \in Existing :
        Len(history[c].raw_context) = conversations[c].message_count

(* C1 witness: a conversation that went through appends, a compress call  *)
(* and a fold.                                                             *)
C1_Witness ==
    \E c \in Existing :
        /\ conversations[c].message_count >= DefaultInterval + 1
        /\ trigger_log[c].attempts >= 1
        /\ Len(history[c].archive) >= 1

(* C2: the countdown (interval) of every conversation is always in        *)
(* 0 .. 10.                                                                *)
C2_IntervalInRange ==
    \A c \in DOMAIN conversations :
        conversations[c].interval \in 0 .. DefaultInterval

(* C2 witness: the countdown has come down to 0. *)
C2_Witness ==
    \E c \in DOMAIN conversations :
        conversations[c].interval = 0 /\ conversations[c].message_count = DefaultInterval

C4_AttemptResetsCountdown ==
    \A c \in Existing :
        (LastAdd(c) /\ ret.attempt) =>
            conversations[c].interval = DefaultInterval

(* C4 witness: an attempt on more than 10 messages that ended in the      *)
(* compactor's exception handler.                                          *)
C4_Witness ==
    \E c \in Existing :
        /\ LastAdd(c) /\ ret.attempt /\ ~ret.success
        /\ ret.reason = "exception"
        /\ conversations[c].interval = DefaultInterval

(* C5: between two consecutive compress calls on a conversation at least  *)
(* 10 messages are appended, and the trigger cannot stay blocked: a       *)
(* conversation never has more than 10 appends since its last attempt, so *)
(* the 11th append after an attempt is an attempt again.                   *)
C5_AttemptSpacing ==
    \A c \in Existing :
        /\ (LastAdd(c) /\ ret.attempt) => ret.gap >= DefaultInterval
        /\ trigger_log[c].since <= DefaultInterval
        /\ (LastAdd(c) /\ ret.ok /\ ~ret.attempt) => trigger_log[c].since >= 1

(* C5 witness: a second compress call on the same conversation. *)
C5_Witness ==
    \E c \in Existing :
        /\ LastAdd(c) /\ ret.attempt
        /\ trigger_log[c].attempts = 2
        /\ ret.gap = DefaultInterval

(* C6: update_after_compression with keep = 5 and summary X on a tactical *)
(* tier of length L > 5 returns True, leaves tactical equal to its last 5 *)
(* messages in the same order, appends to archive exactly one entry       *)
(* {type: compressed, content: X, original_count: L - 5}, and leaves      *)
(* raw_context alone.                                                      *)
C6_FoldingLaw ==
    [][\A c \in ConvIds, s \in Summaries :
         ( /\ c \in Existing
           /\ Len(history[c].tactical) > 5
           /\ UpdateAfterCompression(c, s, 5, "none") )
         => LET old == history[c]
                new == history'[c]
                L == Len(old.tactical)
            IN  /\ ret'.ok
                /\ new.tactical = [i \in 1 .. 5 |-> old.tactical[L - 5 + i]]
                /\ Len(new.archive) = Len(old.archive) + 1
                /\ SubSeq(new.archive, 1, Len(old.archive)) = old.archive
                /\ new.archive[Len(new.archive)].type = "compressed"
                /\ new.archive[Len(new.archive)].content = s
                /\ new.archive[Len(new.archive)].original_count = L - 5
                /\ new.raw_context = old.raw_context
      ]_vars

(* C6 witness: a fold of 8 messages written at different times: 5 are     *)
(* left, the entry counts 3.                                               *)
C6_Witness ==
    \E c \in Existing :
        /\ ret.op = "update_after_compression" /\ ret.id = c /\ ret.ok
        /\ ret.len_before = 8
        /\ Len(history[c].tactical) = 5
        /\ history[c].tactical[1].timestamp # history[c].tactical[5].timestamp
        /\ Len(history[c].archive) >= 1
        /\ history[c].archive[Len(history[c].archive)].original_count = 3

(* C7: update_after_compression on a conversation whose tactical tier has *)
(* keep_recent_messages or fewer messages returns True and changes        *)
(* nothing: the tier files and the metadata, in memory and saved, stay as *)
(* they were.                                                              *)
C7_ShortFoldIsNoOp ==
    [][\A c \in ConvIds, s \in Summaries :
         ( /\ c \in Existing
           /\ Len(history[c].tactical) <= keep_recent
           /\ UpdateAfterCompression(c, s, keep_recent, "none") )
         => /\ ret'.ok
            /\ UNCHANGED <<history, conversations, meta_file>>
      ]_vars

(* C7 witness: update_after_compression returned True on a tactical tier  *)
(* of exactly 5 messages.                                                  *)
C7_Witness ==
    \E c \in Existing :
        /\ ret.op = "update_after_compression" /\ ret.id = c /\ ret.ok
        /\ ret.len_before = keep_recent
        /\ Len(history[c].tactical) = keep_recent

(* C8: when the compress call made inside an append returns False, the    *)
(* tactical tier is what it was plus the appended message and the archive *)
(* is unchanged.                                                           *)
C8_SkippedAttemptKeepsTiers ==
    [][\A c \in ConvIds, m \in Inputs, r \in Replies :
         ( /\ c \in Existing
           /\ AddMessage(c, m.role, m.content, r, "none")
           /\ ret'.attempt /\ ~ret'.success )
         => /\ history'[c].tactical =
                   history[c].tactical \o
                       <<[role |-> m.role, content |-> m.content, timestamp |-> now]>>
            /\ history'[c].archive = history[c].archive
      ]_vars

(* C8 witness: an attempt on a tactical tier of more than 10 messages,    *)
(* with the AI configuration present, that ended skipped.                 *)
C8_Witness ==
    \E c \in Existing :
        /\ LastAdd(c) /\ ret.attempt /\ ~ret.success
        /\ ret.reason = "exception"
        /\ Len(history[c].tactical) = ret.len_before + 1
        /\ Len(history[c].tactical) > MinTactical

(* C9 as stated: an append that took the compaction branch returns True   *)
(* whatever fails on that branch, with its message the last one of        *)
(* raw_context and of tactical.                                            *)
C9_Original ==
    \A c \in Existing :
        (LastAdd(c) /\ ret.fired) =>
            /\ ret.ok
            /\ Len(history[c].raw_context) >= 1
            /\ Len(history[c].tactical) >= 1
            /\ history[c].tactical[Len(history[c].tactical)] =
                   history[c].raw_context[Len(history[c].raw_context)]

(* C10 as stated: an attempt on more than 10 messages, with the AI        *)
(* configuration present and a provider that answers with a non-empty     *)
(* summary and no no_compress call, compresses: on return tactical holds  *)
(* its last 5 messages and archive has a new entry counting the folded    *)
(* ones.                                                                   *)
C10_Original ==
    \A c \in Existing :
        ( /\ LastAdd(c) /\ ret.attempt
          /\ ret.len_before >= MinTactical
          /\ ret.reason # "no_ai_config"
          /\ ret.reply = SummaryReply )
        => /\ ret.success
           /\ Len(history[c].tactical) = keep_recent
           /\ Len(history[c].archive) >= 1
           /\ history[c].archive[Len(history[c].archive)].original_count =
                  ret.len_before + 1 - keep_recent

(* C11 as stated: while every compress call of a conversation meets a     *)
(* configured summarizer that answers with a non-empty summary and no     *)
(* no_compress call, the tactical tier stays bounded: it never holds more *)
(* than keep_recent + DefaultInterval + 1 = 16 messages.                   *)
C11_Original ==
    \A c \in Existing :
        trigger_log[c].steady =>
            Len(history[c].tactical) <= keep_recent + DefaultInterval + 1

(* C12: compress called on a tactical tier of 10 or fewer messages        *)
(* returns False at its first test, before the provider is called, and    *)
(* changes no tier: an append that leaves tactical at 10 or fewer         *)
(* messages only adds its message to raw_context and tactical, and an     *)
(* attempt made inside it ends "too few".  A conversation of up to 10     *)
(* messages with an empty archive has all of them in tactical.            *)
C12_NoCompactionUpToTen ==
    /\ [](\A c \in Existing :
            (Len(history[c].archive) = 0 /\ conversations[c].message_count <= 10)
            => Len(history[c].tactical) = conversations[c].message_count)
    /\ [][\A c \in ConvIds, m \in Inputs, r \in Replies :
            ( /\ c \in Existing
              /\ Len(history[c].tactical) + 1 <= 10
              /\ AddMessage(c, m.role, m.content, r, "none") )
            => LET msg == [role |-> m.role, content |-> m.content, timestamp |-> now]
               IN  /\ ret'.ok
                   /\ history'[c].tactical = history[c].tactical \o <<msg>>
                   /\ history'[c].raw_context = history[c].raw_context \o <<msg>>
                   /\ history'[c].archive = history[c].archive
                   /\ ret'.attempt => (~ret'.success /\ ret'.reason = "too_few")
         ]_vars

(* C12 witness: compress was called on a tactical tier of 6 to 10         *)
(* messages (the tier had been folded before), with the AI configuration  *)
(* present, and returned "too few".                                        *)
C12_Witness ==
    \E c \in Existing :
        /\ LastAdd(c) /\ ret.attempt /\ ~ret.success
        /\ ret.reason = "too_few"
        /\ ret.len_before + 1 > keep_recent
        /\ ret.len_before + 1 <= 10
        /\ Len(history[c].tactical) = ret.len_before + 1
        /\ conversations[c].ai \in ais

(* C13 as stated: what a chat turn assembles is the prefix entries, then  *)
(* the newest min(M, 8) archive entries, then the whole tactical tier, in *)
(* stored order and nothing else: min(M, 8) + A + prefix entries.         *)
C13_Original ==
    turn.built =>
        LET M == turn.archive_len
            A == turn.tactical_len
            window == IF M < ArchiveWindow THEN M ELSE ArchiveWindow
            prefix == prefix_len(get_full_prompt("common"))
        IN  /\ ~turn.raised
            /\ Len(turn.payload) = window + A + prefix
            /\ \A i \in 1 .. Len(turn.context) :
                   turn.payload[prefix + i].content = turn.context[i].content

(* C14 as stated: two chat turns of the same device on the same           *)
(* conversation, with no message appended and no fold between the two     *)
(* calls of build_messages and no new message in either, hand the         *)
(* provider the same messages, every field of every entry included.       *)
C14_Original ==
    [][\A c \in ConvIds, d \in ChatDevices, m \in ChatTexts, an \in ChatAnswers :
         ( /\ turn.fresh /\ turn.id = c /\ turn.device = d
           /\ turn.messages = <<>>
           /\ strip(m) = <<>>
           /\ ProcessMessage(c, d, m, <<>>, SummaryReply, an)
           /\ turn'.built )
         => /\ turn'.raised = turn.raised
            /\ turn'.context = turn.context
            /\ turn'.payload = turn.payload
      ]_vars

(* C15: while a conversation exists, every step leaves its raw_context    *)
(* with the former raw_context as a prefix: nothing is removed, moved or  *)
(* changed, whatever the operation.                                        *)
C15_RawAppendOnly ==
    [][\A c \in Existing \cap (DOMAIN conversations') \cap (DOMAIN history') :
         LET old == history[c].raw_context
             new == history'[c].raw_context
         IN  /\ Len(old) <= Len(new)
             /\ SubSeq(new, 1, Len(old)) = old
      ]_vars

(* C15 witness: a conversation of 11 messages written at different times, *)
(* after a compress call and a fold: raw_context still holds all of them. *)
C15_Witness ==
    \E c \in Existing :
        /\ ret.op = "update_after_compression" /\ ret.id = c /\ ret.ok
        /\ trigger_log[c].attempts >= 1
        /\ Len(history[c].raw_context) >= DefaultInterval + 1
        /\ Len(history[c].tactical) = keep_recent
        /\ history[c].raw_context[1].timestamp
               # history[c].raw_context[Len(history[c].raw_context)].timestamp

(* C16: while a conversation exists, a step changes its tactical tier in  *)
(* one of two ways only: add_message puts one message at its end, or a    *)
(* fold, which adds an archive entry, removes messages from its front and *)
(* keeps the newest ones as they were.  An add_message that returns True  *)
(* has put its message at the end.                                         *)
C16_ActiveGrowsByAppendShrinksByFold ==
    [][\A c \in Existing \cap (DOMAIN conversations') \cap (DOMAIN history') :
         LET old == history[c].tactical
             new == history'[c].tactical
             grown == /\ Len(new) = Len(old) + 1
                      /\ SubSeq(new, 1, Len(old)) = old
                      /\ ret'.op = "add_message" /\ ret'.id = c
                      /\ new[Len(new)] = history'[c].raw_context[Len(history'[c].raw_context)]
             folded == /\ Len(new) < Len(old)
                       /\ new = SubSeq(old, Len(old) - Len(new) + 1, Len(old))
                       /\ Len(history'[c].archive) = Len(history[c].archive) + 1
                       /\ ret'.op = "update_after_compression" /\ ret'.id = c
         IN  /\ new = old \/ grown \/ folded
             /\ (ret' # ret /\ ret'.op = "add_message" /\ ret'.id = c /\ ret'.ok)
                    => grown
      ]_vars

(* C16 witness: a fold has cut a tactical tier of messages written at     *)
(* different times, and a message was appended after it.                   *)
C16_Witness ==
    \E c \in Existing :
        /\ LastAdd(c) /\ ret.ok
        /\ Len(history[c].archive) >= 1
        /\ Len(history[c].tactical) = keep_recent + 1
        /\ history[c].tactical[1].timestamp # history[c].tactical[keep_recent + 1].timestamp

(* C17: every archive entry has type "compressed"; while a conversation   *)
(* exists, a step either leaves its archive as it was or adds one entry   *)
(* at its end, and the step that adds it is a fold                        *)
(* (update_after_compression, called on the store or by a compress that   *)
(* returns True), never a plain append.                                    *)
C17_MemoryAppendOnly ==
    /\ [](\A c \in Existing : \A i \in 1 .. Len(history[c].archive) :
              history[c].archive[i].type = "compressed")
    /\ [][\A c \in Existing \cap (DOMAIN conversations') \cap (DOMAIN history') :
            LET old == history[c].archive
                new == history'[c].archive
            IN  \/ new = old
                \/ /\ Len(new) = Len(old) + 1
                   /\ SubSeq(new, 1, Len(old)) = old
                   /\ \/ ret'.op = "update_after_compression" /\ ret'.ok
                      \/ ret'.op = "add_message" /\ ret'.success
         ]_vars

(* C17 witness: an archive of two entries written by two folds at         *)
(* different times, with messages appended since.                          *)
C17_Witness ==
    \E c \in Existing :
        /\ LastAdd(c) /\ ret.ok
        /\ Len(history[c].archive) = 2
        /\ history[c].archive[1].timestamp # history[c].archive[2].timestamp
        /\ history[c].archive[1].original_count # history[c].archive[2].original_count

(* C20 as stated: however update_after_compression ends, with or without  *)
(* a storage error, it has either added the archive entry and cut the     *)
(* tactical tier to the kept messages, or done neither.                    *)
C20_Original ==
    [][\A c \in ConvIds, sm \in Summaries, f \in Faults :
         ( /\ c \in Existing
           /\ UpdateAfterCompression(c, sm, keep_recent, f) )
         => ( history'[c].archive # history[c].archive
                <=> history'[c].tactical # history[c].tactical )
      ]_vars

(* C18 as stated: with requests on one conversation served at once, the   *)
(* message of every add_message that returned True is in raw_context,     *)
(* and once no call is under way raw_context holds as many messages as    *)
(* were counted and each of them is either in tactical or counted by      *)
(* exactly one archive entry.                                              *)
C18_Original ==
    LET RECURSIVE counted(_)
        counted(archive) ==
            IF archive = <<>> THEN 0
            ELSE archive[1].original_count + counted(Tail(archive))
    IN  \A c \in Existing :
            /\ \A a \in requests.acked :
                   a.id = c =>
                       \E i \in 1 .. Len(history[c].raw_context) :
                           history[c].raw_context[i].content = a.content
            /\ (\A t \in ThreadIds : threads[t].pc = "idle")
                   => /\ Len(history[c].raw_context) = conversations[c].message_count
                      /\ Len(history[c].tactical) + counted(history[c].archive)
                             = conversations[c].message_count

(* C19 as stated: an operation on one conversation leaves every other     *)
(* conversation as it was: its three tier files, its metadata in memory   *)
(* and its entry in the saved metadata file.                               *)
C19_Original ==
    [][\A a \in ConvIds2, b \in ConvIds2 :
         ( /\ a # b
           /\ b \in Existing
           /\ ret' # ret /\ ret'.id = a )
         => LET saved(file) == IF b \in DOMAIN file THEN <<file[b]>> ELSE <<>>
            IN  /\ b \in (DOMAIN conversations') \cap (DOMAIN history')
                /\ history'[b] = history[b]
                /\ conversations'[b] = conversations[b]
                /\ saved(meta_file') = saved(meta_file)
      ]_vars

(* C21 as stated: whenever the process stops, in the middle of an         *)
(* operation or after it, what is on disk agrees: the message_count of    *)
(* each conversation in data.json is the length of its raw_context.json.  *)
C21_Original ==
    \A c \in (DOMAIN meta_file) \cap (DOMAIN history) :
        meta_file[c].message_count = Len(history[c].raw_context)

----------------------------------------------------------------------------
(* ConversationManager.get_conversation_context: {} for a conversation    *)
(* that is not in the metadata or has no directory, else the metadata     *)
(* and the three files                                                     *)
get_conversation_context(conversation_id, convs, hist) ==
    IF conversation_id \notin DOMAIN convs \/ conversation_id \notin DOMAIN hist
    THEN <<>>
    ELSE [metadata |-> convs[conversation_id],
          tactical |-> hist[conversation_id].tactical,
          archive |-> hist[conversation_id].archive,
          raw_context |-> hist[conversation_id].raw_context]

(* ConversationManager.get_tactical_content: [] for a conversation that   *)
(* is not in the metadata or has no tactical.json                          *)
get_tactical_content(conversation_id, convs, hist) ==
    IF conversation_id \notin DOMAIN convs \/ conversation_id \notin DOMAIN hist
    THEN <<>>
    ELSE hist[conversation_id].tactical

(* What the four operations on an id answer when the conversation is not  *)
(* there: {} , [] , False, False, with the store as it was                 *)
ReportsNotFound(c) ==
    /\ get_conversation_context(c, conversations, history) = <<>>
    /\ get_tactical_content(c, conversations, history) = <<>>
    /\ get_context_for_ai(c, conversations, history) = <<>>
    /\ \A m \in Inputs, r \in Replies :
           LET after == add_message(c, new_message(m.role, m.content, now), r,
                                    "none", conversations, meta_file, history,
                                    trigger_log, ais, now)
           IN  /\ ~after.ret.ok
               /\ after.conversations = conversations
               /\ after.meta_file = meta_file
               /\ after.history = history
    /\ \A s \in Summaries :
           LET folded == update_after_compression(c, s, keep_recent, conversations,
                                                  history, now, "none")
           IN  ~folded.ok /\ folded.history = history

(* C22: delete_conversation on an id that is not there returns False and  *)
(* changes nothing; on a conversation that is there it returns True and   *)
(* removes its metadata, in memory and in data.json, and its three files. *)
(* Every id without a conversation, deleted ones included, is answered    *)
(* as not found by get_conversation_context, get_tactical_content,        *)
(* get_context_for_ai, add_message and update_after_compression, and a    *)
(* conversation created afterwards starts with three empty files.         *)
C22_DeleteRemovesEverything ==
    /\ [](\A c \in ConvIds : c \notin DOMAIN conversations => ReportsNotFound(c))
    /\ [][\A c \in ConvIds :
            DeleteConversation(c, "none")
            => IF c \in DOMAIN conversations
               THEN /\ ret'.ok
                    /\ c \notin DOMAIN conversations'
                    /\ c \notin DOMAIN meta_file'
                    /\ c \notin DOMAIN history'
                    /\ ReportsNotFound(c)'
               ELSE /\ ~ret'.ok
                    /\ UNCHANGED <<conversations, meta_file, history>>
         ]_vars
    /\ [][\A c \in ConvIds :
            (c \notin DOMAIN conversations /\ c \in DOMAIN conversations')
            => history'[c] = empty_files
         ]_vars

(* C22 witness: delete_conversation has just returned True and nothing   *)
(* of the conversation is left in memory, in data.json or on disk          *)
C22_Witness ==
    /\ ret.op = "delete_conversation"
    /\ ret.ok
    /\ ret.id \notin DOMAIN conversations
    /\ ret.id \notin DOMAIN history
    /\ ret.id \notin DOMAIN meta_file

(* C23: add_message on an id that has no conversation returns False and  *)
(* does nothing else: the files and the metadata of every conversation,   *)
(* in memory and in data.json, are as they were, no entry appears for     *)
(* the id, and compress is not called.                                     *)
C23_AppendToMissingIsNoOp ==
    [][\A c \in ConvIds2, m \in Inputs, f \in {"none", "save"} :
         ( /\ c \notin Existing
           /\ AddMessage(c, m.role, m.content, SummaryReply, f) )
         => /\ ret'.op = "add_message" /\ ret'.id = c
            /\ ~ret'.ok
            /\ ~ret'.fired /\ ~ret'.attempt
            /\ c \notin Existing'
            /\ UNCHANGED <<conversations, meta_file, history, trigger_log>>
      ]_vars

(* C23 witness: add_message on a missing id has returned False while     *)
(* another conversation holds messages                                     *)
C23_Witness ==
    /\ ret.op = "add_message"
    /\ ~ret.ok
    /\ ret.id \notin Existing
    /\ \E b \in Existing : history[b].raw_context # <<>>

(* C24 as stated: when a file operation fails while add_message appends  *)
(* to a conversation that is there, the value the call returns is not    *)
(* the value add_message returns for an id that has no conversation.      *)
C24_Original ==
    [][\A c \in ConvIds, m \in Inputs, r \in Replies, f \in {"raw", "tactical"} :
         ( /\ c \in Existing
           /\ AddMessage(c, m.role, m.content, r, f) )
         => ret'.ok # add_message("unknown", new_message(m.role, m.content, now), r,
                                  "none", conversations, meta_file, history,
                                  trigger_log, ais, now).ret.ok
      ]_vars

(* C25: create_conversation returns an id no conversation had, leaves    *)
(* the new conversation with its three files empty, message_count 0,     *)
(* interval 10 and last_compress_attempt 0, with its entry saved in      *)
(* data.json, and leaves the files and the metadata of the conversations *)
(* that were there as they were.                                          *)
C25_CreateStartsEmpty ==
    [][\A c \in ConvIds2, a \in AiIds, d \in Devices :
         CreateConversation(c, a, d)
         => /\ ret'.op = "create_conversation" /\ ret'.id = c
            /\ c \notin (DOMAIN conversations) \cup (DOMAIN history)
            /\ history'[c].raw_context = <<>>
            /\ history'[c].tactical = <<>>
            /\ history'[c].archive = <<>>
            /\ conversations'[c].message_count = 0
            /\ conversations'[c].interval = 10
            /\ conversations'[c].last_compress_attempt = 0
            /\ c \in DOMAIN meta_file' /\ meta_file'[c] = conversations'[c]
            /\ \A b \in Existing :
                   /\ b \in Existing'
                   /\ conversations'[b] = conversations[b]
                   /\ history'[b] = history[b]
      ]_vars

(* C25 witness: a conversation has just been created beside one that     *)
(* holds messages                                                          *)
C25_Witness ==
    /\ ret.op = "create_conversation"
    /\ ret.id \in Existing
    /\ history[ret.id].raw_context = <<>>
    /\ \E b \in Existing \ {ret.id} : history[b].raw_context # <<>>

----------------------------------------------------------------------------
(* The messages the archive entries count: sum of original_count *)
RECURSIVE compressed_count(_)
compressed_count(archive) ==
    IF archive = <<>> THEN 0
    ELSE archive[1].original_count + compressed_count(Tail(archive))

(* to_compress + to_keep of every fold update_after_compression made,    *)
(* one after the other, read back from raw_context: the fold recorded by *)
(* an entry took the messages after those counted by the entries before  *)
(* it, original_count of them to compress and keep_recent to keep         *)
(* (lines 346-348, 357-362)                                                *)
RECURSIVE folds_input(_, _, _)
folds_input(raw, archive, done) ==
    IF archive = <<>> THEN <<>>
    ELSE SubSeq(raw, done + 1, done + archive[1].original_count + keep_recent)
         \o folds_input(raw, Tail(archive), done + archive[1].original_count)

(* s can be had from r by dropping messages of r *)
RECURSIVE IsSubsequence(_, _)
IsSubsequence(s, r) ==
    IF s = <<>> THEN TRUE
    ELSE IF r = <<>> THEN FALSE
    ELSE IF Head(s) = Head(r) THEN IsSubsequence(Tail(s), Tail(r))
    ELSE IsSubsequence(s, Tail(r))

(* C26 as stated: the to_compress + to_keep of all the folds made on a   *)
(* conversation, one after the other, is a subsequence of raw_context.    *)
C26_Original ==
    \A c \in Existing :
        IsSubsequence(folds_input(history[c].raw_context, history[c].archive, 0),
                      history[c].raw_context)

(* C26: what a fold takes, to_compress + to_keep, is the tactical tier,  *)
(* and the tactical tier is always the end of raw_context that starts    *)
(* after the messages the archive entries count; so the to_compress of   *)
(* all the folds, one after the other, followed by the messages now in   *)
(* tactical, is raw_context itself, each message once, in order.  (The   *)
(* messages a fold keeps are taken again by the next fold.)               *)
C26_FoldsPartitionRaw ==
    /\ [](\A c \in Existing :
            LET raw == history[c].raw_context
                done == compressed_count(history[c].archive)
            IN  /\ done + Len(history[c].tactical) = Len(raw)
                /\ history[c].tactical = SubSeq(raw, done + 1, Len(raw)))
    /\ [][\A c \in Existing :
            ( /\ c \in Existing'
              /\ history'[c].archive # history[c].archive )
            => LET old == history[c].tactical
                   entry == history'[c].archive[Len(history'[c].archive)]
                   to_compress == SubSeq(old, 1, entry.original_count)
                   to_keep == history'[c].tactical
               IN  /\ to_compress \o to_keep = old
                   /\ Len(to_keep) = keep_recent
                   /\ IsSubsequence(old, history'[c].raw_context)
         ]_vars

(* C26 witness: two folds have been made, of messages written at         *)
(* different times, and messages were appended after the second           *)
C26_Witness ==
    \E c \in Existing :
        /\ Len(history[c].archive) = 2
        /\ Len(history[c].tactical) > keep_recent
        /\ history[c].raw_context[1].timestamp
               # history[c].raw_context[Len(history[c].raw_context)].timestamp

(* C27 as stated: a tool response, always sent with tool_call_id         *)
(* "call_1", is stored in the tactical tier with that id, and every      *)
(* payload assembled afterwards carries its entry with that id.           *)
C27_Original ==
    /\ \A c \in Existing :
           \A i \in 1 .. Len(history[c].tactical) :
               history[c].tactical[i].role = "tool"
               => /\ "tool_call_id" \in DOMAIN history[c].tactical[i]
                  /\ history[c].tactical[i].tool_call_id = <<"call_1">>
    /\ (turn.built /\ ~turn.raised)
           => \A i \in 1 .. Len(turn.payload) :
                  turn.payload[i].role = "tool"
                  => turn.payload[i].tool_call_id = <<"call_1">>

(* C28 as stated: a chat turn on a conversation whose archive is not     *)
(* empty builds its payload without an error, with one entry for each of *)
(* the newest min(M, 8) archive entries placed before the tactical       *)
(* messages, carrying the entry's content.                                 *)
C28_Original ==
    (turn.built /\ turn.archive_len > 0)
    => LET M == turn.archive_len
           window == IF M < ArchiveWindow THEN M ELSE ArchiveWindow
           prefix == prefix_len(get_full_prompt("common"))
       IN  /\ ~turn.raised
           /\ turn.error \notin {"exception"}
           /\ Len(turn.payload) >= prefix + window + turn.tactical_len
           /\ \A i \in 1 .. window :
                  turn.payload[prefix + i].content = turn.context[i].content

----------------------------------------------------------------------------
(* GET /v1/chat/list: the devices clients name, and the request without  *)
(* a device (None, or the empty string of "?device=": both are false in  *)
(* "if device_id")                                                         *)
Devices2 == {"d1", "d2"}
NoDevice == ""
ListDevices == Devices2 \cup {NoDevice}

(* Mutant: the filter of lines 384-389 is left out *)
list_conversations_unfiltered(device_id, convs) == convs

(* ConversationManager.list_conversations *)
list_conversations(device_id, convs) ==
    IF device_id # NoDevice
    THEN [conv_id \in {c \in DOMAIN convs : convs[c].device = device_id}
              |-> convs[conv_id]]
    ELSE convs

(* A call of list_conversations(device_id): nothing changes, the caller  *)
(* gets the dict                                                            *)
ListConversations(device_id) ==
    /\ ret' = Returned("list_conversations", "", TRUE)
                  @@ [device |-> device_id,
                      listed |-> list_conversations(device_id, conversations)]
    /\ UNCHANGED <<conversations, meta_file, history, ais, now, trigger_log,
                   io_faults, turn, threads, requests>>

(* Conversations of two devices, created, written to, listed and deleted *)
NextList ==
    \/ \E a \in AiIds : AiSet(a)
    \/ \E c \in ConvIds2, a \in AiIds, d \in Devices2 : CreateConversation(c, a, d)
    \/ \E c \in ConvIds2, m \in Inputs :
           SendMessage(c, m, SummaryReply, "none", MaxPair)
    \/ \E c \in ConvIds2 : DeleteConversation(c, "none")
    \/ \E d \in ListDevices : ListConversations(d)

SpecList == Init /\ [][NextList]_vars

(* C29: list_conversations(d) returns exactly the conversations whose    *)
(* device is d, each with its metadata as it is now, and without a       *)
(* device it returns every conversation.  A conversation is in the list  *)
(* of its device, and in no other device's list, from its creation on,   *)
(* and in no list once it is deleted.                                      *)
C29_ListIsByDevice ==
    /\ [][\A d \in ListDevices :
            ListConversations(d)
            => LET owned == IF d = NoDevice THEN Existing
                            ELSE {c \in Existing : conversations[c].device = d}
               IN  /\ DOMAIN ret'.listed = owned
                   /\ \A c \in owned : ret'.listed[c] = conversations[c]
         ]_vars
    /\ [][\A c \in ConvIds2, a \in AiIds, d \in Devices2 :
            CreateConversation(c, a, d)
            => /\ c \in DOMAIN list_conversations(d, conversations')
               /\ c \in DOMAIN list_conversations(NoDevice, conversations')
               /\ \A e \in Devices2 \ {d} :
                      c \notin DOMAIN list_conversations(e, conversations')
         ]_vars
    /\ [][\A c \in ConvIds2 :
            (c \in Existing /\ DeleteConversation(c, "none"))
            => \A d \in ListDevices :
                   c \notin DOMAIN list_conversations(d, conversations')
         ]_vars
    /\ [][\A c \in Existing, d \in ListDevices :
            c \in Existing'
            => ( c \in DOMAIN list_conversations(d, conversations')
                   <=> c \in DOMAIN list_conversations(d, conversations) )
         ]_vars

(* C29 witness: with conversations of two devices, one of them holding   *)
(* messages, the list of one device has been returned                     *)
C29_Witness ==
    /\ ret.op = "list_conversations"
    /\ ret.device = "d1"
    /\ \E c \in Existing, b \in Existing :
           /\ conversations[c].device = "d1"
           /\ conversations[b].device = "d2"
           /\ conversations[c].message_count > 0
           /\ c \in DOMAIN ret.listed
           /\ b \notin DOMAIN ret.listed

----------------------------------------------------------------------------
(* A chat turn with a question and no tool response, the provider        *)
(* answering r to a compaction request made during the turn; at most     *)
(* MaxTurns messages per conversation                                      *)
SendTurn(c, d, m, r, answer) ==
    /\ Sent(c) + 2 <= MaxTurns
    /\ ProcessMessage(c, d, m, <<>>, r, answer)

(* Chat turns long enough for the countdown to reach 0 during them, all  *)
(* within one second of the clock                                          *)
NextTurns ==
    \/ \E a \in AiIds : AiSet(a)
    \/ \E a \in AiIds : AiDelete(a)
    \/ \E c \in ConvIds, a \in AiIds, d \in Devices : CreateConversation(c, a, d)
    \/ \E c \in ConvIds, d \in ChatDevices, r \in Replies, an \in ChatAnswers :
           SendTurn(c, d, <<"q">>, r, an)
    \/ \E c \in ConvIds : DeleteConversation(c, "none")

SpecTurns == Init /\ [][NextTurns]_vars

(* C30: a chat turn whose user message is appended with the countdown at *)
(* 0 calls compress during that append; whatever the provider answers to *)
(* the compaction request, compress does not fold, and the turn goes on  *)
(* as a turn without the call does: the payload is built from the        *)
(* context with the new message at its end, the turn succeeds exactly     *)
(* when the provider answers the chat request, and then the user message *)
(* and the reply are the two newest messages of raw_context and tactical, *)
(* which lost no message.                                                  *)
C30_FailedCompactionInvisible ==
    [][\A c \in ConvIds, d \in ChatDevices, r \in Replies, an \in ChatAnswers :
         ( /\ c \in Existing
           /\ conversations[c].ai \in ais
           /\ conversations[c].interval = 0
           /\ SendTurn(c, d, <<"q">>, r, an) )
         => LET old == history[c]
                new == history'[c]
                user == new_message("user", <<"q">>, now)
                n == Len(old.tactical)
            IN  /\ trigger_log'[c].attempts = trigger_log[c].attempts + 1
                /\ new.archive = old.archive
                /\ turn'.built /\ ~turn'.raised
                /\ turn'.context = old.tactical \o <<user>>
                /\ turn'.ok = an.ok
                /\ turn'.error = IF an.ok THEN "" ELSE "no_response"
                /\ SubSeq(new.tactical, 1, n + 1) = old.tactical \o <<user>>
                /\ SubSeq(new.raw_context, 1, Len(old.raw_context) + 1)
                       = old.raw_context \o <<user>>
                /\ Len(new.tactical) = IF an.ok THEN n + 2 ELSE n + 1
                /\ an.ok => new.tactical[n + 2].role = "assistant"
      ]_vars

(* C30 witness: a turn whose user message was the 11th append has        *)
(* succeeded; compress was called in it and folded nothing                 *)
C30_Witness ==
    \E c \in Existing :
        /\ turn.ok /\ turn.id = c
        /\ trigger_log[c].attempts = 1
        /\ Len(history[c].raw_context) = 12
        /\ Len(history[c].tactical) = 12
        /\ history[c].tactical[11].role = "user"
        /\ history[c].tactical[12].role = "assistant"
        /\ conversations[c].interval = 9

(* C31: in a chat turn on a conversation with its AI configuration, the  *)
(* tool response (if any) is appended first, then the user message (if   *)
(* not blank); the context is read after both and before the reply is    *)
(* appended, so it ends with the turn's own tool and user messages and   *)
(* does not hold the reply; the assistant message is appended last, and  *)
(* only when the relay answered.                                           *)
C31_TurnOrder ==
    [][\A c \in ConvIds, d \in ChatDevices, m \in ChatTexts,
          tr \in ToolResponses, an \in ChatAnswers :
         ( /\ c \in Existing
           /\ conversations[c].ai \in ais
           /\ ProcessMessage(c, d, m, tr, SummaryReply, an) )
         => LET old == history[c]
                new == history'[c]
                tool == IF tr # <<>>
                        THEN <<new_message("tool", tr[1].content, now)>>
                        ELSE <<>>
                user == IF strip(m) # <<>>
                        THEN <<new_message("user", m, now)>>
                        ELSE <<>>
                own == tool \o user
                n == Len(old.tactical) + Len(own)
            IN  /\ turn'.built
                /\ turn'.context = old.archive \o old.tactical \o own
                /\ SubSeq(new.tactical, 1, n) = old.tactical \o own
                /\ SubSeq(new.raw_context, 1, Len(old.raw_context) + Len(own))
                       = old.raw_context \o own
                /\ turn'.ok => an.ok
                /\ LET k == Len(new.raw_context) - Len(old.raw_context)
                   IN  /\ conversations'[c].message_count
                              = conversations[c].message_count + k
                       /\ conversations[c].interval >= k
                              => conversations'[c].interval
                                     = conversations[c].interval - k
                /\ IF turn'.ok
                   THEN /\ Len(new.tactical) = n + 1
                        /\ new.tactical[n + 1].role = "assistant"
                        /\ new.tactical[n + 1].content = an.choices[1].content
                        /\ new.raw_context[Len(new.raw_context)] = new.tactical[n + 1]
                   ELSE Len(new.tactical) = n
      ]_vars

(* C31 witness: a turn with a tool response and a question has           *)
(* succeeded: the context was the tool message and the question, the     *)
(* reply is the third message                                              *)
C31_Witness ==
    \E c \in Existing :
        /\ turn.ok /\ turn.id = c
        /\ Len(turn.context) = 2
        /\ turn.context[1].role = "tool"
        /\ turn.context[2].role = "user"
        /\ Len(history[c].tactical) = 3
        /\ history[c].tactical[3].role = "assistant"

----------------------------------------------------------------------------
(* The device of /v1/chat/send is any non-empty string of the client:    *)
(* an ordinary one, and one that contains the words compress looks for   *)
ClientDevices == {<<"d1">>, <<"d1", "compress-task">>}

(* generate_payload, the OpenAI branch: temperature and max_tokens come  *)
(* from the AI configuration unless "压缩任务" is in device                *)
sampling(device) ==
    IF is_compress_task(device)
    THEN [temperature |-> "0.3", max_tokens |-> "1000"]
    ELSE [temperature |-> "config", max_tokens |-> "config"]

(* Chat turns from the devices clients can name, all within one second   *)
(* of the clock                                                            *)
NextDevice ==
    \/ \E a \in AiIds : AiSet(a)
    \/ \E c \in ConvIds, a \in AiIds, d \in Devices : CreateConversation(c, a, d)
    \/ \E c \in ConvIds, d \in ClientDevices, m \in ChatTexts, an \in ChatAnswers :
           SendChat(c, d, m, <<>>, an, MaxShort)
    \/ \E c \in ConvIds : DeleteConversation(c, "none")

SpecDevice == Init /\ [][NextDevice]_vars

(* C33 as stated: the payload of a live chat turn, whatever device the   *)
(* client names, is built in normal mode: the system entry is the prompt *)
(* alone, the marker entry is the device marker, and temperature and     *)
(* max_tokens are those of the AI configuration.                           *)
C33_Original ==
    (turn.built /\ ~turn.raised)
    => /\ turn.payload[1] = [role |-> "system",
                             content |-> get_full_prompt("common")]
       /\ turn.payload[2] = [role |-> "system",
                             content |-> <<"[device]">> \o turn.device]
       /\ sampling(turn.device) = [temperature |-> "config", max_tokens |-> "config"]

(* C34: with operations one after the other on storage that does not    *)
(* fail, len(tactical) plus the original_count of all archive entries    *)
(* is len(raw_context): every entry counts at least one message, an       *)
(* append adds one message to tactical and to raw_context, and a fold    *)
(* takes from tactical exactly the messages its new entry counts.         *)
C34_Conservation ==
    /\ [](\A c \in Existing :
            /\ Len(history[c].tactical) + compressed_count(history[c].archive)
                   = Len(history[c].raw_context)
            /\ \A i \in 1 .. Len(history[c].archive) :
                   history[c].archive[i].original_count >= 1)
    /\ [][\A c \in Existing :
            c \in Existing'
            => LET grown == Len(history'[c].raw_context) - Len(history[c].raw_context)
                   counted == compressed_count(history'[c].archive)
                                  - compressed_count(history[c].archive)
               IN  /\ grown \in {0, 1}
                   /\ counted >= 0
                   /\ Len(history'[c].tactical)
                          = Len(history[c].tactical) + grown - counted
                   /\ ~(grown = 1 /\ counted > 0)
         ]_vars

(* C34 witness: two folds that counted different numbers of messages,    *)
(* and the second has just been made                                       *)
C34_Witness ==
    \E c \in Existing :
        /\ ret.op = "update_after_compression" /\ ret.id = c
        /\ Len(history[c].archive) = 2
        /\ history[c].archive[1].original_count # history[c].archive[2].original_count
        /\ Len(history[c].tactical) = keep_recent

(* C35: with operations one after the other on storage that does not    *)
(* fail, the tactical tier is the end of raw_context, message for        *)
(* message, and is not empty when raw_context is not: the newest message *)
(* of raw_context is the newest message of tactical.                      *)
C35_ActiveIsSuffixOfRaw ==
    \A c \in Existing :
        LET raw == history[c].raw_context
            act == history[c].tactical
            k == Len(raw) - Len(act)
        IN  /\ k >= 0
            /\ \A i \in 1 .. Len(act) : act[i] = raw[k + i]
            /\ raw # <<>> => /\ act # <<>>
                             /\ act[Len(act)] = raw[Len(raw)]

(* C35 witness: after a fold, two messages were appended at a later      *)
(* time than the oldest kept one                                           *)
C35_Witness ==
    \E c \in Existing :
        /\ LastAdd(c) /\ ret.ok
        /\ Len(history[c].archive) >= 1
        /\ Len(history[c].tactical) = keep_recent + 2
        /\ Len(history[c].raw_context) > Len(history[c].tactical)
        /\ history[c].tactical[1].timestamp
               # history[c].tactical[keep_recent + 2].timestamp

(* C36 as stated: the payload of a chat turn holds, after the prefix     *)
(* entries, one entry for each message of the context and nothing after  *)
(* them: the user message of the turn, which is the last message of the  *)
(* context, is not sent a second time as a trailing entry.                 *)
C36_Original ==
    (turn.built /\ ~turn.raised)
    => LET prefix == prefix_len(get_full_prompt("common"))
           sent == SubSeq(turn.payload, prefix + 1, Len(turn.payload))
       IN  /\ Len(sent) = Len(turn.context)
           /\ \A i \in 1 .. Len(turn.context) :
                  /\ sent[i].role = turn.context[i].role
                  /\ sent[i].content = turn.context[i].content
           /\ \A j \in 1 .. Len(turn.messages) :
                  Cardinality({i \in 1 .. Len(sent) :
                                  /\ sent[i].role = "user"
                                  /\ sent[i].content = turn.messages[j]}) = 1

(* C37 as stated: an add_message on a conversation that is there which   *)
(* returns False leaves the conversation as it was: its three files, its *)
(* metadata in memory (message_count and interval included) and the      *)
(* saved metadata.                                                          *)
C37_Original ==
    [][\A c \in ConvIds, m \in Inputs, r \in Replies, f \in Faults :
         ( /\ c \in Existing
           /\ AddMessage(c, m.role, m.content, r, f)
           /\ ~ret'.ok )
         => /\ history'[c] = history[c]
            /\ conversations'[c] = conversations[c]
            /\ meta_file' = meta_file
      ]_vars

----------------------------------------------------------------------------
(* A reply from an AI configuration whose provider is none of those      *)
(* extract_ai_response knows                                               *)
GeminiReply ==
    [ok |-> TRUE, choices |-> <<[content |-> <<"a">>, tool_calls |-> <<>>]>>,
     provider |-> "gemini"]

ParseAnswers == ChatAnswers \cup {GeminiReply}

(* Chat turns that can fail at each step after the user message was      *)
(* saved, all within one second of the clock                               *)
NextParse ==
    \/ \E a \in AiIds : AiSet(a)
    \/ \E a \in AiIds : AiDelete(a)
    \/ \E c \in ConvIds, a \in AiIds, d \in Devices : CreateConversation(c, a, d)
    \/ \E c \in ConvIds, d \in ChatDevices, m \in ChatTexts, an \in ParseAnswers :
           SendChat(c, d, m, <<>>, an, MaxParse)
    \/ \E c \in ConvIds, s \in Summaries :
           UpdateAfterCompression(c, s, keep_recent, "none")
    \/ \E c \in ConvIds : DeleteConversation(c, "none")

SpecParse == Init /\ [][NextParse]_vars

(* C38: a chat turn with a question that ends with an error after the    *)
(* question was saved (no AI configuration, build_messages raised, no    *)
(* response from the relay, or a reply that is not extracted) is not     *)
(* successful and saves no assistant message; the question stays the      *)
(* newest message of raw_context and of tactical, message_count is one   *)
(* more and the countdown one less than before the turn.                   *)
C38_FailedTurnKeepsUserMessage ==
    [][\A c \in ConvIds, d \in ChatDevices, m \in ChatTexts, an \in ParseAnswers :
         ( /\ c \in Existing
           /\ strip(m) # <<>>
           /\ ProcessMessage(c, d, m, <<>>, SummaryReply, an)
           /\ turn'.error \in {"no_ai_config", "exception", "no_response",
                               "parse_failed"} )
         => LET user == new_message("user", m, now)
            IN  /\ ~turn'.ok
                /\ history'[c].raw_context = history[c].raw_context \o <<user>>
                /\ history'[c].tactical = history[c].tactical \o <<user>>
                /\ history'[c].archive = history[c].archive
                /\ conversations'[c].message_count
                       = conversations[c].message_count + 1
                /\ conversations[c].interval > 0
                       => conversations'[c].interval = conversations[c].interval - 1
                /\ meta_file'[c] = conversations'[c]
      ]_vars

(* C38 witness: after a turn that succeeded, a turn failed because the   *)
(* reply was not extracted: the tactical tier ends with its question,    *)
(* after the earlier reply                                                 *)
C38_Witness ==
    \E c \in Existing :
        /\ turn.id = c /\ turn.error = "parse_failed"
        /\ Len(history[c].tactical) = 3
        /\ history[c].tactical[2].role = "assistant"
        /\ history[c].tactical[3].role = "user"
        /\ conversations[c].message_count = 3

====
